---- MODULE Spec2Model ----
(***************************************************************************)
(* Model of the BattleArena front-end data layer: the Firebase-backed      *)
(* DataProvider (src/src/contexts/DataContext.tsx, second provider), the   *)
(* admin pages that drive it, and the PaymentDialog checkout flow.         *)
(*                                                                         *)
(* The backend is a document store: every awaited SDK call is one step,    *)
(* several browser clients interleave between the steps, and any backend   *)
(* call may fail (network error, permission denied, missing document).     *)
(***************************************************************************)
EXTENDS Integers, Sequences, FiniteSets, Bags, TLC

(* ------------------------------ bounds --------------------------------- *)

\* Data-layer calls started in one behaviour of Spec (one admin browser).
MaxOps == 2

\* Data-layer calls started in one behaviour of SpecRace (two browsers).
MaxRaceOps == 2

\* Entries in a result list handed to distributePrizes.
MaxResults == 2

\* joinTournament calls started in one behaviour of SpecJoin.
MaxJoins == 3

\* Admin-page handlers started in one behaviour of SpecRoom.
MaxAdminOps == 2

\* Payments started in one behaviour of SpecPay.
MaxPayments == 2

\* Calls and admin handlers started in one behaviour of SpecErrors.
MaxErrorOps == 3

\* Calls started from the withdrawal pages in one behaviour of SpecWithdrawals.
MaxWithdrawalOps == 3

\* Calls that move winningCredits started in one behaviour of SpecCredits.
MaxCreditOps == 3

\* Calls of joinTournament and requestWithdrawal in one behaviour of SpecLocal.
MaxLocalCalls == 2

(* ---------------------------- value domains ---------------------------- *)

Clients == {"a1", "a2"}

UserIds == {"u1", "u2"}

TournamentIds == {"t1", "t2"}

Positions == {1, 2, 3}

WithdrawalAmounts == {0, 5}

PrizeArgs == {0, 5}

UpiIds == {"upi"}

\* A signed-in account whose users document does not exist.
NoProfile == "u0"

\* Deposited balance of u1 when the behaviour starts.
InitWallet == 7

Null == "null"

\* A tier list whose ranges overlap at rank 1 (the admin form accepts any
\* ranges), and leaves rank 3 unpaid.
OverlapTiers ==
    << [rankStart |-> 1, rankEnd |-> 1, prizeAmount |-> 5],
       [rankStart |-> 1, rankEnd |-> 2, prizeAmount |-> 3] >>

\* The defaultPrizeTiers shape scaled down: disjoint consecutive ranges.
DisjointTiers ==
    << [rankStart |-> 1, rankEnd |-> 1, prizeAmount |-> 5],
       [rankStart |-> 2, rankEnd |-> 3, prizeAmount |-> 3] >>

VARIABLES
    users,              \* collection 'users': id -> document
    tournamentDocs,     \* collection 'tournaments': id -> document
    registrations,      \* collection 'registrations': a bag of documents
    transactions,       \* collection 'transactions': a bag of documents
    withdrawals,        \* collection 'withdrawals', index = document id
    matchResults,       \* collection 'matchResults': a bag of documents
    tournaments,        \* per client: React state `tournaments`
    withdrawalRequests, \* per client: React state `withdrawalRequests`
    pc,                 \* per client: the await the running call is at
    call,               \* per client: arguments and locals of the running call
    settled,            \* the promise the last step settled, if any
    distributed,        \* history: the distributePrizes calls that resolved
    opsStarted,         \* number of data-layer calls started so far
    dialog,             \* the PaymentDialog component and its checkout
    local,              \* the local-storage DataProvider and its storage keys
    auth,               \* the AuthProvider of one browser and its accounts
    handlers            \* per client: running withdrawals snapshot handlers

vars == << users, tournamentDocs, registrations, transactions, withdrawals,
           matchResults, tournaments, withdrawalRequests, pc, call, settled,
           distributed, opsStarted, dialog, local, auth, handlers >>

backend == << users, tournamentDocs, registrations, transactions, withdrawals,
              matchResults >>

(* ------------------------------ documents ------------------------------ *)

NoDoc == [exists |-> FALSE]

\* A document that was deleted: addDoc never hands out its id again.
DeletedDoc == [exists |-> FALSE, deleted |-> TRUE]

UserDoc(wallet, credits) ==
    [exists |-> TRUE, walletBalance |-> wallet, winningCredits |-> credits,
     isBanned |-> FALSE, isAdmin |-> FALSE]

TournamentDoc(status, maxPlayers, entryFee, tiers) ==
    [exists |-> TRUE, status |-> status, maxPlayers |-> maxPlayers,
     entryFee |-> entryFee, prizeTiers |-> tiers, registeredCount |-> 0,
     roomId |-> Null, roomPassword |-> Null, roomReleased |-> FALSE]

IdleCall == [op |-> "none"]

NoEvent == [client |-> "none", op |-> "none", result |-> "none"]

\* addDoc(collection(db, ...), document): the document joins the collection.
AddDoc(coll, document) == coll (+) SetToBag({document})

(* --------------------------- pure functions ---------------------------- *)

\* allUsers as fetchAllUsers returns it (in document-id order).
AllUsersOrder == << "u1", "u2" >>

\* handleOpenResultsDialog: one row per user of allUsers.slice(0, n), in that
\* order, with kills 0; updatePlayerResult lets the admin type any position.
ResultLists ==
    { rs \in UNION { [1..n -> [oderId : UserIds, position : Positions,
                               kills : {0}]] :
                     n \in 1..(IF MaxResults < Len(AllUsersOrder)
                               THEN MaxResults ELSE Len(AllUsersOrder)) } :
        \A i \in DOMAIN rs : rs[i].oderId = AllUsersOrder[i] }

InTier(tier, position) ==
    position >= tier.rankStart /\ position <= tier.rankEnd

\* A tier loop that keeps scanning after a match (no break).
RECURSIVE LastTierLoop(_, _, _, _)
LastTierLoop(tiers, position, i, acc) ==
    IF i > Len(tiers) THEN acc
    ELSE LastTierLoop(tiers, position, i + 1,
                      IF InTier(tiers[i], position) THEN tiers[i].prizeAmount
                      ELSE acc)

PrizeOfLastTier(tiers, position) == LastTierLoop(tiers, position, 1, 0)

\* for (const tier of tournament.prizeTiers) { if (...) { prizeAmount = ...; break; } }
RECURSIVE TierLoop(_, _, _)
TierLoop(tiers, position, i) ==
    IF i > Len(tiers) THEN 0
    ELSE IF InTier(tiers[i], position) THEN tiers[i].prizeAmount
    ELSE TierLoop(tiers, position, i + 1)

PrizeAmountFor(tiers, position) == TierLoop(tiers, position, 1)

\* currentCredits + prizeAmount, from the value the caller has read.
CreditedBalance(currentCredits, prizeAmount) == currentCredits + prizeAmount

\* Math.max(0, currentCredits - request.amount)
DebitedBalance(currentCredits, amount) ==
    IF currentCredits - amount > 0 THEN currentCredits - amount ELSE 0

(* ------------------------- call bookkeeping ---------------------------- *)

Idle(c) == pc[c] = "idle"

\* The call of client c moves to the await `at` with locals `locals`.
Goto(c, at, locals) ==
    /\ pc' = [pc EXCEPT ![c] = at]
    /\ call' = [call EXCEPT ![c] = locals]
    /\ settled' = NoEvent
    /\ UNCHANGED distributed

\* The promise of client c's call settles.
Settle(c, op, result) ==
    /\ pc' = [pc EXCEPT ![c] = "idle"]
    /\ call' = [call EXCEPT ![c] = IdleCall]
    /\ settled' = [client |-> c, op |-> op, result |-> result]

\* catch (error) { console.error(...); throw error; }
Reject(c) ==
    /\ Settle(c, call[c].op, "rejected")
    /\ UNCHANGED distributed

Resolve(c) ==
    /\ Settle(c, call[c].op, "resolved")
    /\ UNCHANGED distributed

(* ---------------------------- listeners -------------------------------- *)

\* snapshot.docs.map(docSnap => ({..., roomId: data.roomId || null,
\* roomPassword: data.roomPassword || null, ...})): a deleted document is not
\* in the snapshot, an empty string reads as null.
TournamentOf(d) ==
    IF ~d.exists THEN NoDoc
    ELSE [d EXCEPT !.roomId = IF @ = "" THEN Null ELSE @,
                   !.roomPassword = IF @ = "" THEN Null ELSE @]

TournamentsQuery == [t \in TournamentIds |-> TournamentOf(tournamentDocs[t])]

\* onSnapshot(tournamentsQuery, ...): setTournaments(tournamentsData)
TournamentsSnapshot(c) ==
    /\ tournaments[c] # TournamentsQuery
    /\ tournaments' = [tournaments EXCEPT ![c] = TournamentsQuery]
    /\ settled' = NoEvent
    /\ UNCHANGED << backend, withdrawalRequests, pc, call, distributed,
                    opsStarted, dialog, local, auth, handlers >>

\* onSnapshot(withdrawalsQuery, ...): the admin query returns every request.
WithdrawalsSnapshot(c) ==
    /\ withdrawalRequests[c] # withdrawals
    /\ withdrawalRequests' = [withdrawalRequests EXCEPT ![c] = withdrawals]
    /\ settled' = NoEvent
    /\ UNCHANGED << backend, tournaments, pc, call, distributed, opsStarted,
                    dialog, local, auth, handlers >>

(* -------------------------- distributePrizes --------------------------- *)

MatchResultDoc(tournamentId, userId, position, kills, prizeAmount) ==
    [tournamentId |-> tournamentId, userId |-> userId, position |-> position,
     kills |-> kills, prizeAmount |-> prizeAmount]

TransactionDoc(userId, type, amount, referenceId) ==
    [userId |-> userId, type |-> type, amount |-> amount,
     referenceId |-> referenceId]

\* const tournament = tournaments.find(t => t.id === tournamentId);
\* if (!tournament) return;
DistributePrizes(c, tournamentId, results) ==
    /\ Idle(c)
    /\ opsStarted' = opsStarted + 1
    /\ IF tournaments[c][tournamentId].exists
       THEN Goto(c, "dp_addResult",
                 [op |-> "distributePrizes", tournamentId |-> tournamentId,
                  results |-> results, idx |-> 1,
                  prizeTiers |-> tournaments[c][tournamentId].prizeTiers,
                  prizeAmount |-> 0, currentCredits |-> 0])
       ELSE Settle(c, "distributePrizes", "resolved") /\ UNCHANGED distributed
    /\ UNCHANGED << backend, tournaments, withdrawalRequests, dialog, local, auth, handlers >>

\* The loop moves to the next result, or leaves the loop.
DpNext(c) ==
    IF call[c].idx < Len(call[c].results)
    THEN Goto(c, "dp_addResult", [call[c] EXCEPT !.idx = @ + 1])
    ELSE Goto(c, "dp_updateStatus", call[c])

\* A failure handler that also marks the tournament completed (the status
\* update moved into a finally block).
DpFailCompleting(c) ==
    /\ Reject(c)
    /\ tournamentDocs' = [tournamentDocs EXCEPT
                            ![call[c].tournamentId].status = "COMPLETED"]
    /\ UNCHANGED << users, registrations, transactions, withdrawals,
                    matchResults >>

\* A catch block that logs the error and does not rethrow it.
DpFailSwallowing(c) ==
    /\ Resolve(c)
    /\ UNCHANGED backend

\* A backend call of distributePrizes throws: the catch block logs and
\* rethrows, nothing is undone.
DpFail(c) ==
    /\ Reject(c)
    /\ UNCHANGED backend

\* await addDoc(collection(db, 'matchResults'), {...})
DpAddMatchResult(c) ==
    /\ pc[c] = "dp_addResult"
    /\ UNCHANGED << tournaments, withdrawalRequests, opsStarted, dialog, local, auth, handlers >>
    /\ \/ DpFail(c)
       \/ LET result == call[c].results[call[c].idx]
              prizeAmount == PrizeAmountFor(call[c].prizeTiers, result.position)
          IN  /\ matchResults' = AddDoc(matchResults,
                     MatchResultDoc(call[c].tournamentId, result.oderId,
                                    result.position, result.kills, prizeAmount))
              /\ UNCHANGED << users, tournamentDocs, registrations,
                              transactions, withdrawals >>
              /\ IF prizeAmount > 0
                 THEN Goto(c, "dp_addTransaction",
                           [call[c] EXCEPT !.prizeAmount = prizeAmount])
                 ELSE DpNext(c)

\* await addDoc(collection(db, 'transactions'), { type: 'PRIZE', ... })
DpAddTransaction(c) ==
    /\ pc[c] = "dp_addTransaction"
    /\ UNCHANGED << tournaments, withdrawalRequests, opsStarted, dialog, local, auth, handlers >>
    /\ \/ DpFail(c)
       \/ /\ transactions' = AddDoc(transactions,
                 TransactionDoc(call[c].results[call[c].idx].oderId, "PRIZE",
                                call[c].prizeAmount, call[c].tournamentId))
          /\ UNCHANGED << users, tournamentDocs, registrations, withdrawals,
                          matchResults >>
          /\ Goto(c, "dp_getUser", call[c])

\* const userDoc = await getDoc(doc(db, 'users', result.oderId));
\* if (userDoc.exists()) { const currentCredits = ...winningCredits || 0; ...
DpGetUser(c) ==
    /\ pc[c] = "dp_getUser"
    /\ UNCHANGED << tournaments, withdrawalRequests, opsStarted, dialog, local, auth, handlers >>
    /\ \/ DpFail(c)
       \/ LET userDoc == users[call[c].results[call[c].idx].oderId]
          IN  /\ UNCHANGED backend
              /\ IF userDoc.exists
                 THEN Goto(c, "dp_updateUser",
                        [call[c] EXCEPT !.currentCredits = userDoc.winningCredits])
                 ELSE DpNext(c)

\* An increment applied to the stored value at write time (atomic increment).
DpWriteCreditsAtomic(c) ==
    LET oderId == call[c].results[call[c].idx].oderId
    IN  users' = [users EXCEPT ![oderId].winningCredits =
                     CreditedBalance(@, call[c].prizeAmount)]

\* A credit that is skipped once the tournament has been marked completed.
DpWriteCreditsOnce(c) ==
    LET oderId == call[c].results[call[c].idx].oderId
    IN  users' = IF tournamentDocs[call[c].tournamentId].status = "COMPLETED"
                 THEN users
                 ELSE [users EXCEPT ![oderId].winningCredits =
                         CreditedBalance(call[c].currentCredits,
                                         call[c].prizeAmount)]

\* updateDoc(doc(db, 'users', result.oderId),
\*           { winningCredits: currentCredits + prizeAmount, updatedAt })
DpWriteCredits(c) ==
    LET oderId == call[c].results[call[c].idx].oderId
    IN  users' = [users EXCEPT ![oderId].winningCredits =
                     CreditedBalance(call[c].currentCredits, call[c].prizeAmount)]

\* await updateDoc(...): updateDoc fails on a document that no longer exists.
DpUpdateUser(c) ==
    /\ pc[c] = "dp_updateUser"
    /\ UNCHANGED << tournaments, withdrawalRequests, opsStarted, dialog, local, auth, handlers >>
    /\ \/ DpFail(c)
       \/ /\ users[call[c].results[call[c].idx].oderId].exists
          /\ DpWriteCredits(c)
          /\ UNCHANGED << tournamentDocs, registrations, transactions,
                          withdrawals, matchResults >>
          /\ DpNext(c)

\* await updateDoc(doc(db, 'tournaments', tournamentId), { status: 'COMPLETED' })
DpUpdateStatus(c) ==
    /\ pc[c] = "dp_updateStatus"
    /\ UNCHANGED << tournaments, withdrawalRequests, opsStarted, dialog, local, auth, handlers >>
    /\ \/ DpFail(c)
       \/ /\ tournamentDocs[call[c].tournamentId].exists
          /\ tournamentDocs' = [tournamentDocs EXCEPT
                                  ![call[c].tournamentId].status = "COMPLETED"]
          /\ UNCHANGED << users, registrations, transactions, withdrawals,
                          matchResults >>
          /\ Goto(c, "dp_fetchAllUsers", call[c])

\* await fetchAllUsers(): it catches its own errors, so the call resolves.
DpFetchAllUsers(c) ==
    /\ pc[c] = "dp_fetchAllUsers"
    /\ Settle(c, "distributePrizes", "resolved")
    /\ distributed' = AddDoc(distributed,
           [tournamentId |-> call[c].tournamentId, results |-> call[c].results])
    /\ UNCHANGED << backend, tournaments, withdrawalRequests, opsStarted,
                    dialog, local, auth, handlers >>

(* ------------------------- addTournamentResult ------------------------- *)

AtrFail(c) ==
    /\ Reject(c)
    /\ UNCHANGED backend

\* await addDoc(collection(db, 'matchResults'), {...}): the first await.
AddTournamentResult(c, tournamentId, oderId, position, prizeAmount, kills) ==
    /\ Idle(c)
    /\ opsStarted' = opsStarted + 1
    /\ UNCHANGED << tournaments, withdrawalRequests, dialog, local, auth, handlers >>
    /\ LET locals == [op |-> "addTournamentResult",
                      tournamentId |-> tournamentId, oderId |-> oderId,
                      prizeAmount |-> prizeAmount, currentCredits |-> 0]
       IN  \/ /\ Settle(c, "addTournamentResult", "rejected")
              /\ UNCHANGED distributed
              /\ UNCHANGED backend
           \/ /\ matchResults' = AddDoc(matchResults,
                     MatchResultDoc(tournamentId, oderId, position, kills,
                                    prizeAmount))
              /\ UNCHANGED << users, tournamentDocs, registrations,
                              transactions, withdrawals >>
              /\ Goto(c, "atr_addTransaction", locals)

\* await addDoc(collection(db, 'transactions'), { type: 'PRIZE', ... })
AtrAddTransaction(c) ==
    /\ pc[c] = "atr_addTransaction"
    /\ UNCHANGED << tournaments, withdrawalRequests, opsStarted, dialog, local, auth, handlers >>
    /\ \/ AtrFail(c)
       \/ /\ transactions' = AddDoc(transactions,
                 TransactionDoc(call[c].oderId, "PRIZE", call[c].prizeAmount,
                                call[c].tournamentId))
          /\ UNCHANGED << users, tournamentDocs, registrations, withdrawals,
                          matchResults >>
          /\ Goto(c, "atr_getUser", call[c])

\* const userDoc = await getDoc(doc(db, 'users', oderId));
AtrGetUser(c) ==
    /\ pc[c] = "atr_getUser"
    /\ UNCHANGED << tournaments, withdrawalRequests, opsStarted, dialog, local, auth, handlers >>
    /\ \/ AtrFail(c)
       \/ /\ UNCHANGED backend
          /\ IF users[call[c].oderId].exists
             THEN Goto(c, "atr_updateUser",
                       [call[c] EXCEPT !.currentCredits =
                                          users[call[c].oderId].winningCredits])
             ELSE Resolve(c)

\* updateDoc(doc(db, 'users', oderId),
\*           { winningCredits: currentCredits + prizeAmount, updatedAt })
AtrWriteCredits(c) ==
    users' = [users EXCEPT ![call[c].oderId].winningCredits =
                 CreditedBalance(call[c].currentCredits, call[c].prizeAmount)]

AtrUpdateUser(c) ==
    /\ pc[c] = "atr_updateUser"
    /\ UNCHANGED << tournaments, withdrawalRequests, opsStarted, dialog, local, auth, handlers >>
    /\ \/ AtrFail(c)
       \/ /\ users[call[c].oderId].exists
          /\ AtrWriteCredits(c)
          /\ UNCHANGED << tournamentDocs, registrations, transactions,
                          withdrawals, matchResults >>
          /\ Resolve(c)

(* -------------------------- requestWithdrawal -------------------------- *)

WithdrawalDoc(oderId, amount, upiId) ==
    [oderId |-> oderId, amount |-> amount, status |-> "PENDING",
     upiId |-> upiId, processedAt |-> Null, processedBy |-> Null,
     rejectionReason |-> Null]

\* A check that lets every amount through.
HasCreditsUnchecked(currentCredits, amount) == TRUE

\* if (currentCredits < amount) throw new Error('Insufficient winning credits')
HasCredits(currentCredits, amount) == ~(currentCredits < amount)

\* The catch block of requestWithdrawal rethrows what the try block threw.
RwThrow(c, error) ==
    /\ Settle(c, "requestWithdrawal", error)
    /\ UNCHANGED distributed

\* requestWithdrawal(oderId, amount, upiId) runs up to its first await.
RequestWithdrawal(c, oderId, amount, upiId) ==
    /\ Idle(c)
    /\ opsStarted' = opsStarted + 1
    /\ UNCHANGED << backend, tournaments, withdrawalRequests, dialog, local, auth, handlers >>
    /\ Goto(c, "rw_getUser",
            [op |-> "requestWithdrawal", oderId |-> oderId, amount |-> amount,
             upiId |-> upiId, userDoc |-> NoDoc])

\* const userDoc = await getDoc(doc(db, 'users', oderId));
\* if (!userDoc.exists()) throw new Error('User not found');
\* const currentCredits = userDoc.data().winningCredits || 0;
\* if (currentCredits < amount) throw new Error('Insufficient winning credits');
RwGetUser(c) ==
    /\ pc[c] = "rw_getUser"
    /\ UNCHANGED << backend, tournaments, withdrawalRequests, opsStarted,
                    dialog, local, auth, handlers >>
    /\ LET userDoc == users[call[c].oderId]
       IN  \/ RwThrow(c, "rejected")
           \/ /\ ~userDoc.exists
              /\ RwThrow(c, "User not found")
           \/ /\ userDoc.exists
              /\ ~HasCredits(userDoc.winningCredits, call[c].amount)
              /\ RwThrow(c, "Insufficient winning credits")
           \/ /\ userDoc.exists
              /\ HasCredits(userDoc.winningCredits, call[c].amount)
              /\ Goto(c, "rw_addDoc", [call[c] EXCEPT !.userDoc = userDoc])

\* await addDoc(collection(db, 'withdrawals'), { status: 'PENDING', ... })
RwAddDoc(c) ==
    /\ pc[c] = "rw_addDoc"
    /\ UNCHANGED << tournaments, withdrawalRequests, opsStarted, dialog, local, auth, handlers >>
    /\ \/ /\ Reject(c)
          /\ UNCHANGED backend
       \/ /\ withdrawals' = Append(withdrawals,
                 WithdrawalDoc(call[c].oderId, call[c].amount, call[c].upiId))
          /\ UNCHANGED << users, tournamentDocs, registrations, transactions,
                          matchResults >>
          /\ Resolve(c)

(* -------------------------- processWithdrawal -------------------------- *)

\* A failure that puts the request back as the caller had listed it.
PwFailRollingBack(c) ==
    /\ Reject(c)
    /\ withdrawals' = [withdrawals EXCEPT ![call[c].requestId] =
                          call[c].request]
    /\ UNCHANGED << users, tournamentDocs, registrations, transactions,
                    matchResults >>

PwFail(c) ==
    /\ Reject(c)
    /\ UNCHANGED backend

\* const request = withdrawalRequests.find(r => r.id === requestId);
\* if (!request) { console.error('Withdrawal request not found'); return; }
ProcessWithdrawal(c, requestId, approved, reason) ==
    /\ Idle(c)
    /\ opsStarted' = opsStarted + 1
    /\ UNCHANGED << backend, tournaments, withdrawalRequests, dialog, local, auth, handlers >>
    /\ IF requestId \in DOMAIN withdrawalRequests[c]
       THEN Goto(c, "pw_updateWithdrawal",
                 [op |-> "processWithdrawal", requestId |-> requestId,
                  approved |-> approved, reason |-> reason,
                  request |-> withdrawalRequests[c][requestId],
                  currentCredits |-> 0])
       ELSE Settle(c, "processWithdrawal", "resolved") /\ UNCHANGED distributed

\* A status update that goes on to the deduction for a rejection as well.
PwUpdateWithdrawalDeducting(c) ==
    /\ pc[c] = "pw_updateWithdrawal"
    /\ UNCHANGED << tournaments, withdrawalRequests, opsStarted, dialog, local, auth, handlers >>
    /\ \/ PwFail(c)
       \/ /\ withdrawals' = [withdrawals EXCEPT ![call[c].requestId] =
                 [@ EXCEPT !.status = IF call[c].approved THEN "APPROVED"
                                      ELSE "REJECTED",
                           !.processedAt = "now",
                           !.processedBy = c,
                           !.rejectionReason = call[c].reason]]
          /\ UNCHANGED << users, tournamentDocs, registrations, transactions,
                          matchResults >>
          /\ Goto(c, "pw_getUser", call[c])

\* await updateDoc(doc(db, 'withdrawals', requestId),
\*   { status, processedAt, processedBy: user?.id || null, rejectionReason })
PwUpdateWithdrawal(c) ==
    /\ pc[c] = "pw_updateWithdrawal"
    /\ UNCHANGED << tournaments, withdrawalRequests, opsStarted, dialog, local, auth, handlers >>
    /\ \/ PwFail(c)
       \/ /\ withdrawals' = [withdrawals EXCEPT ![call[c].requestId] =
                 [@ EXCEPT !.status = IF call[c].approved THEN "APPROVED"
                                      ELSE "REJECTED",
                           !.processedAt = "now",
                           !.processedBy = c,
                           !.rejectionReason = call[c].reason]]
          /\ UNCHANGED << users, tournamentDocs, registrations, transactions,
                          matchResults >>
          /\ IF call[c].approved
             THEN Goto(c, "pw_getUser", call[c])
             ELSE Resolve(c)

\* const userDoc = await getDoc(doc(db, 'users', request.oderId));
PwGetUser(c) ==
    /\ pc[c] = "pw_getUser"
    /\ UNCHANGED << tournaments, withdrawalRequests, opsStarted, dialog, local, auth, handlers >>
    /\ \/ PwFail(c)
       \/ /\ UNCHANGED backend
          /\ IF users[call[c].request.oderId].exists
             THEN Goto(c, "pw_updateUser",
                       [call[c] EXCEPT !.currentCredits =
                            users[call[c].request.oderId].winningCredits])
             ELSE Goto(c, "pw_addTransaction", call[c])

\* A deduction without the floor at 0.
PwWriteUnfloored(c) ==
    users' = [users EXCEPT ![call[c].request.oderId].winningCredits =
                 call[c].currentCredits - call[c].request.amount]

\* A deduction taken from the deposited balance instead.
PwWriteWallet(c) ==
    users' = [users EXCEPT ![call[c].request.oderId].walletBalance =
                 DebitedBalance(@, call[c].request.amount)]

\* updateDoc(doc(db, 'users', request.oderId),
\*           { winningCredits: newCredits, updatedAt })
PwWriteCredits(c) ==
    users' = [users EXCEPT ![call[c].request.oderId].winningCredits =
                 DebitedBalance(call[c].currentCredits, call[c].request.amount)]

PwUpdateUser(c) ==
    /\ pc[c] = "pw_updateUser"
    /\ UNCHANGED << tournaments, withdrawalRequests, opsStarted, dialog, local, auth, handlers >>
    /\ \/ PwFail(c)
       \/ /\ users[call[c].request.oderId].exists
          /\ PwWriteCredits(c)
          /\ UNCHANGED << tournamentDocs, registrations, transactions,
                          withdrawals, matchResults >>
          /\ Goto(c, "pw_addTransaction", call[c])

\* await addDoc(collection(db, 'transactions'), { type: 'WITHDRAWAL', ... })
PwAddTransaction(c) ==
    /\ pc[c] = "pw_addTransaction"
    /\ UNCHANGED << tournaments, withdrawalRequests, opsStarted, dialog, local, auth, handlers >>
    /\ \/ PwFail(c)
       \/ /\ transactions' = AddDoc(transactions,
                 TransactionDoc(call[c].request.oderId, "WITHDRAWAL",
                                0 - call[c].request.amount, call[c].requestId))
          /\ UNCHANGED << users, tournamentDocs, registrations, withdrawals,
                          matchResults >>
          /\ Resolve(c)

(* --------------------------- joinTournament ---------------------------- *)

\* `prefix_${Date.now()}`
GeneratedId(prefix, now) == prefix \o ToString(now)

RegistrationDoc(tournamentId, oderId, paymentId, slotNumber) ==
    [tournamentId |-> tournamentId, userId |-> oderId, paymentId |-> paymentId,
     paymentStatus |-> "COMPLETED", slotNumber |-> slotNumber,
     isDisqualified |-> FALSE]

\* (tournament.registeredCount || 0) + 1, from the caller's snapshot.
SlotNumber(tournament) == tournament.registeredCount + 1

\* const tournament = tournaments.find(t => t.id === tournamentId);
\* if (!tournament) throw new Error('Tournament not found');
\* Nothing compares registeredCount with maxPlayers.
JoinTournament(c, tournamentId, oderId, paymentIdInput) ==
    /\ Idle(c)
    /\ opsStarted' = opsStarted + 1
    /\ IF tournaments[c][tournamentId].exists
       THEN Goto(c, "jt_addRegistration",
                 [op |-> "joinTournament", tournamentId |-> tournamentId,
                  oderId |-> oderId,
                  slotNumber |-> SlotNumber(tournaments[c][tournamentId]),
                  paymentId |-> IF paymentIdInput = Null
                                THEN GeneratedId("pay_", dialog.now)
                                ELSE paymentIdInput,
                  entryFee |-> tournaments[c][tournamentId].entryFee])
       ELSE Settle(c, "joinTournament", "rejected") /\ UNCHANGED distributed
    /\ UNCHANGED << backend, tournaments, withdrawalRequests, dialog, local, auth, handlers >>

\* A failure that takes the call's registration out again.
JtFailUndoing(c) ==
    /\ Reject(c)
    /\ registrations' = registrations (-)
           SetToBag({RegistrationDoc(call[c].tournamentId, call[c].oderId,
                                     call[c].paymentId, call[c].slotNumber)})
    /\ UNCHANGED << users, tournamentDocs, transactions, withdrawals,
                    matchResults >>

\* catch (error) { console.error('Error joining tournament:', error); throw error; }
JtFail(c) ==
    /\ Reject(c)
    /\ UNCHANGED backend

\* await addDoc(collection(db, 'registrations'), {...})
JtAddRegistration(c) ==
    /\ pc[c] = "jt_addRegistration"
    /\ UNCHANGED << tournaments, withdrawalRequests, opsStarted, dialog, local, auth, handlers >>
    /\ \/ JtFail(c)
       \/ /\ registrations' = AddDoc(registrations,
                 RegistrationDoc(call[c].tournamentId, call[c].oderId,
                                 call[c].paymentId, call[c].slotNumber))
          /\ UNCHANGED << users, tournamentDocs, transactions, withdrawals,
                          matchResults >>
          /\ Goto(c, "jt_addTransaction", call[c])

\* await addDoc(collection(db, 'transactions'), { type: 'ENTRY_FEE', ... })
JtAddTransaction(c) ==
    /\ pc[c] = "jt_addTransaction"
    /\ UNCHANGED << tournaments, withdrawalRequests, opsStarted, dialog, local, auth, handlers >>
    /\ \/ JtFail(c)
       \/ /\ transactions' = AddDoc(transactions,
                 TransactionDoc(call[c].oderId, "ENTRY_FEE",
                                0 - call[c].entryFee, call[c].tournamentId))
          /\ UNCHANGED << users, tournamentDocs, registrations, withdrawals,
                          matchResults >>
          /\ Goto(c, "jt_updateCount", call[c])

\* await updateDoc(doc(db, 'tournaments', tournamentId),
\*                 { registeredCount: slotNumber })
JtUpdateCount(c) ==
    /\ pc[c] = "jt_updateCount"
    /\ UNCHANGED << tournaments, withdrawalRequests, opsStarted, dialog, local, auth, handlers >>
    /\ \/ JtFail(c)
       \/ /\ tournamentDocs[call[c].tournamentId].exists
          /\ tournamentDocs' = [tournamentDocs EXCEPT
                 ![call[c].tournamentId].registeredCount = call[c].slotNumber]
          /\ UNCHANGED << users, registrations, transactions, withdrawals,
                          matchResults >>
          /\ Resolve(c)

(* ------------------------- tournament admin page ----------------------- *)

\* An admin handler of client c ends; the page shows a toast.
Toast(c, handler, result) ==
    /\ settled' = [client |-> c, op |-> handler, result |-> result]
    /\ UNCHANGED distributed

\* await addDoc(collection(db, 'tournaments'), {...tournament,
\*   registeredCount: 0}): the document gets an id no document ever had.
CreateTournament(tournamentId, tournament) ==
    /\ tournamentDocs[tournamentId] = NoDoc
    /\ tournamentDocs' = [tournamentDocs EXCEPT
                            ![tournamentId] = [tournament EXCEPT
                                                 !.registeredCount = 0]]

\* handleCreateTournament: the form must hold a date and a prize tier; the
\* tournament is created UPCOMING with no room.
HandleCreateTournament(c, matchDateTime, prizeTiers) ==
    /\ Idle(c)
    /\ opsStarted' = opsStarted + 1
    /\ UNCHANGED << users, registrations, transactions, withdrawals,
                    matchResults, tournaments, withdrawalRequests, pc, call,
                    dialog, local, auth, handlers >>
    /\ IF matchDateTime = "" \/ Len(prizeTiers) = 0
       THEN Toast(c, "handleCreateTournament", "invalid")
            /\ UNCHANGED tournamentDocs
       ELSE \/ /\ Toast(c, "handleCreateTournament", "failed")
               /\ UNCHANGED tournamentDocs
            \/ /\ \E t \in TournamentIds :
                     CreateTournament(t,
                         TournamentDoc("UPCOMING", 2, 5, prizeTiers))
               /\ Toast(c, "handleCreateTournament", "created")

\* await deleteDoc(doc(db, 'tournaments', tournamentId)), from the Delete
\* button of a listed tournament.
DeleteTournament(c, tournamentId) ==
    /\ Idle(c)
    /\ tournaments[c][tournamentId].exists
    /\ opsStarted' = opsStarted + 1
    /\ UNCHANGED << users, registrations, transactions, withdrawals,
                    matchResults, tournaments, withdrawalRequests, pc, call,
                    dialog, local, auth, handlers >>
    /\ \/ /\ Toast(c, "deleteTournament", "rejected")
          /\ UNCHANGED tournamentDocs
       \/ /\ tournamentDocs' = [tournamentDocs EXCEPT
                                  ![tournamentId] = DeletedDoc]
          /\ Toast(c, "deleteTournament", "resolved")

\* The status buttons of a listed tournament: Start Match and Cancel
\* Tournament when UPCOMING, Complete Match when LIVE.
StatusButtons(status) ==
    IF status = "UPCOMING" THEN {"LIVE", "CANCELLED"}
    ELSE IF status = "LIVE" THEN {"COMPLETED"}
    ELSE {}

\* await updateDoc(doc(db, 'tournaments', tournamentId), { status })
UpdateTournamentStatus(tournamentId, status) ==
    /\ tournamentDocs[tournamentId].exists
    /\ tournamentDocs' = [tournamentDocs EXCEPT ![tournamentId].status = status]

HandleStatusChange(c, tournamentId, status) ==
    /\ Idle(c)
    /\ tournaments[c][tournamentId].exists
    /\ status \in StatusButtons(tournaments[c][tournamentId].status)
    /\ opsStarted' = opsStarted + 1
    /\ UNCHANGED << users, registrations, transactions, withdrawals,
                    matchResults, tournaments, withdrawalRequests, pc, call,
                    dialog, local, auth, handlers >>
    /\ \/ /\ Toast(c, "handleStatusChange", "failed")
          /\ UNCHANGED tournamentDocs
       \/ /\ UpdateTournamentStatus(tournamentId, status)
          /\ Toast(c, "handleStatusChange", "updated")

\* The Release Room button, shown when the listed tournament is UPCOMING and
\* its room is not released: setSelectedTournament(tournament);
\* setRoomDialogOpen(true).
OpenRoomDialog(c, tournamentId) ==
    /\ Idle(c)
    /\ tournaments[c][tournamentId].exists
    /\ tournaments[c][tournamentId].status = "UPCOMING"
    /\ ~tournaments[c][tournamentId].roomReleased
    /\ opsStarted' = opsStarted + 1
    /\ Goto(c, "roomDialog",
            [op |-> "handleReleaseRoom", selectedTournament |-> tournamentId])
    /\ UNCHANGED << backend, tournaments, withdrawalRequests, dialog, local, auth, handlers >>

\* The Cancel button of the room dialog: setRoomDialogOpen(false).
CloseRoomDialog(c) ==
    /\ pc[c] = "roomDialog"
    /\ Settle(c, "handleReleaseRoom", "closed")
    /\ UNCHANGED << backend, tournaments, withdrawalRequests, distributed,
                    opsStarted, dialog, local, auth, handlers >>

\* A release handler that sends whatever the two inputs hold.
RoomInputsAny(selectedTournament, roomId, roomPassword) ==
    selectedTournament # Null

\* if (!selectedTournament || !roomId || !roomPassword) { toast.error; return }
RoomInputsGiven(selectedTournament, roomId, roomPassword) ==
    selectedTournament # Null /\ roomId # "" /\ roomPassword # ""

\* await updateDoc(doc(db, 'tournaments', tournamentId),
\*                 { roomId, roomPassword, roomReleased: true })
UpdateTournamentRoom(tournamentId, roomId, roomPassword) ==
    /\ tournamentDocs[tournamentId].exists
    /\ tournamentDocs' = [tournamentDocs EXCEPT
           ![tournamentId] = [@ EXCEPT !.roomId = roomId,
                                       !.roomPassword = roomPassword,
                                       !.roomReleased = TRUE]]

\* handleReleaseRoom, from the Release to Players button of the room dialog.
HandleReleaseRoom(c, roomId, roomPassword) ==
    /\ pc[c] = "roomDialog"
    /\ UNCHANGED << users, registrations, transactions, withdrawals,
                    matchResults, tournaments, withdrawalRequests, opsStarted,
                    dialog, local, auth, handlers >>
    /\ IF ~RoomInputsGiven(call[c].selectedTournament, roomId, roomPassword)
       THEN /\ Toast(c, "handleReleaseRoom", "invalid")
            /\ UNCHANGED << tournamentDocs, pc, call >>
       ELSE \/ /\ Toast(c, "handleReleaseRoom", "failed")
               /\ UNCHANGED << tournamentDocs, pc, call >>
            \/ /\ UpdateTournamentRoom(call[c].selectedTournament, roomId,
                                       roomPassword)
               /\ Settle(c, "handleReleaseRoom", "released")
               /\ UNCHANGED distributed

(* ------------------------------ PaymentDialog -------------------------- *)

NoResponse ==
    [razorpay_payment_id |-> Null, razorpay_order_id |-> Null,
     razorpay_signature |-> Null]

\* What the checkout may hand to the success handler: the order id and the
\* signature are optional, and nothing vouches for the signature.
Responses ==
    [razorpay_payment_id : {"pay_rzp"},
     razorpay_order_id : {Null, "order_rzp"},
     razorpay_signature : {Null, "valid", "forged"}]

\* The dialog as it mounts: useState initial values, no checkout, no timer.
NoDialog ==
    [open |-> TRUE, user |-> "u1", walletBalance |-> InitWallet,
     entryFee |-> 5, paymentMethod |-> "razorpay", isProcessing |-> FALSE,
     paymentStep |-> "select", error |-> Null, razorpayLoaded |-> FALSE,
     scriptLoaded |-> FALSE, checkout |-> "closed", walletWait |-> FALSE,
     timers |-> EmptyBag, onPaymentSuccess |-> << >>, onSuccess |-> << >>,
     onFailure |-> << >>, paid |-> 0, started |-> 0, now |-> 0]

\* const hasEnoughBalance = walletBalance >= entryFee;
HasEnoughBalance == dialog.walletBalance >= dialog.entryFee

\* One step of the dialog or of the checkout: `event` names what ran.
DialogStep(event, d) ==
    /\ dialog' = d
    /\ settled' = [client |-> "dialog", op |-> event, result |-> "none"]
    /\ UNCHANGED << backend, tournaments, withdrawalRequests, pc, call,
                    distributed, opsStarted, local, auth, handlers >>

\* What Date.now() may return when the last reading was `last`.
ClockReadings(last) == {last, last + 1}

\* checkout.js finishes loading: window.Razorpay becomes defined.
LoadScript ==
    /\ ~dialog.scriptLoaded
    /\ DialogStep("script", [dialog EXCEPT !.scriptLoaded = TRUE])

\* checkRazorpay, run by the effect and by its 1000 ms timer.
CheckRazorpay ==
    /\ dialog.scriptLoaded
    /\ ~dialog.razorpayLoaded
    /\ DialogStep("checkRazorpay", [dialog EXCEPT !.razorpayLoaded = TRUE])

\* The parent opens the dialog again.
OpenDialog ==
    /\ ~dialog.open
    /\ DialogStep("open", [dialog EXCEPT !.open = TRUE])

\* handleClose: if (!isProcessing) { onOpenChange(false); ... }
HandleClose ==
    /\ dialog.open
    /\ ~dialog.isProcessing
    /\ DialogStep("handleClose",
           [dialog EXCEPT !.open = FALSE, !.paymentStep = "select",
                          !.error = Null])

\* The radio group of the select step; the wallet item is disabled when the
\* balance does not cover the fee.
SetPaymentMethod(method) ==
    /\ dialog.open
    /\ dialog.paymentStep = "select"
    /\ method # dialog.paymentMethod
    /\ method = "wallet" => HasEnoughBalance
    /\ DialogStep("setPaymentMethod", [dialog EXCEPT !.paymentMethod = method])

\* The Pay button: rendered in the select step, disabled while processing or
\* while the gateway is not loaded; an open checkout covers the page.
PayButtonEnabled ==
    /\ dialog.open
    /\ dialog.paymentStep = "select"
    /\ dialog.checkout = "closed"
    /\ ~dialog.isProcessing
    /\ dialog.paymentMethod = "razorpay" => dialog.razorpayLoaded

\* handleRazorpayPayment up to razorpay.open(); `opens` is whether
\* new window.Razorpay(options) and open() return without throwing.
HandleRazorpayPayment(opens) ==
    /\ PayButtonEnabled
    /\ dialog.paymentMethod = "razorpay"
    /\ DialogStep("handleRazorpayPayment",
         IF ~dialog.razorpayLoaded
         THEN [dialog EXCEPT !.started = @ + 1,
                 !.error = "Payment gateway not loaded"]
         ELSE IF dialog.user = Null
         THEN [dialog EXCEPT !.started = @ + 1,
                 !.error = "Please login to make a payment"]
         ELSE IF opens
         THEN [dialog EXCEPT !.started = @ + 1, !.isProcessing = TRUE,
                 !.paymentStep = "processing", !.error = Null,
                 !.checkout = "dialog"]
         ELSE [dialog EXCEPT !.started = @ + 1, !.isProcessing = FALSE,
                 !.paymentStep = "select",
                 !.error = "Failed to initialize payment gateway"])

\* A success handler that checks the signature before it accepts the payment.
RazorpayHandlerVerifying(response) ==
    /\ dialog.checkout = "dialog"
    /\ DialogStep("handler",
         IF response.razorpay_signature = "valid"
         THEN [dialog EXCEPT !.paymentStep = "success", !.isProcessing = FALSE,
                 !.checkout = "closed", !.paid = @ + 1,
                 !.timers = AddDoc(@, [method |-> "razorpay",
                                       response |-> response])]
         ELSE [dialog EXCEPT !.paymentStep = "select", !.isProcessing = FALSE,
                 !.checkout = "closed",
                 !.error = "Payment verification failed"])

\* options.handler: the checkout reports a payment; the callback is put on a
\* 1500 ms timer.  The signature is not looked at.
RazorpayHandler(response) ==
    /\ dialog.checkout = "dialog"
    /\ DialogStep("handler",
         [dialog EXCEPT !.paymentStep = "success", !.isProcessing = FALSE,
            !.checkout = "closed", !.paid = @ + 1,
            !.timers = AddDoc(@, [method |-> "razorpay",
                                  response |-> response])])

\* A dismiss handler that goes on to report the payment as made.
RazorpayDismissCompleting ==
    /\ dialog.checkout = "dialog"
    /\ DialogStep("ondismiss",
         [dialog EXCEPT !.isProcessing = FALSE, !.paymentStep = "select",
            !.error = "Payment cancelled", !.checkout = "closed",
            !.timers = AddDoc(@, [method |-> "razorpay",
                                  response |-> NoResponse])])

\* options.modal.ondismiss: the user closes the checkout.
RazorpayDismiss ==
    /\ dialog.checkout = "dialog"
    /\ DialogStep("ondismiss",
         [dialog EXCEPT !.isProcessing = FALSE, !.paymentStep = "select",
            !.error = "Payment cancelled", !.checkout = "closed"])

\* razorpay.on('payment.failed', ...): the checkout stays open for a retry.
RazorpayPaymentFailed ==
    /\ dialog.checkout = "dialog"
    /\ DialogStep("payment.failed",
         [dialog EXCEPT !.isProcessing = FALSE, !.paymentStep = "select",
            !.error = "Payment failed"])

\* handleWalletPayment up to its await.
HandleWalletPayment ==
    /\ PayButtonEnabled
    /\ dialog.paymentMethod = "wallet"
    /\ DialogStep("handleWalletPayment",
         IF ~HasEnoughBalance
         THEN [dialog EXCEPT !.started = @ + 1,
                 !.error = "Insufficient wallet balance"]
         ELSE [dialog EXCEPT !.started = @ + 1, !.isProcessing = TRUE,
                 !.paymentStep = "processing", !.error = Null,
                 !.walletWait = TRUE])

\* await new Promise(resolve => setTimeout(resolve, 1000)) returns: the
\* wallet step is done and the callback is put on a 1500 ms timer.
WalletStepDone ==
    /\ dialog.walletWait
    /\ DialogStep("walletDone",
         [dialog EXCEPT !.walletWait = FALSE, !.paymentStep = "success",
            !.isProcessing = FALSE, !.paid = @ + 1,
            !.timers = AddDoc(@, [method |-> "wallet",
                                  response |-> NoResponse])])

\* The arguments the timer callback passes to onPaymentSuccess at time now.
SuccessArgs(timer, now) ==
    IF timer.method = "razorpay"
    THEN [paymentId |-> timer.response.razorpay_payment_id,
          orderId |-> IF timer.response.razorpay_order_id # Null
                      THEN timer.response.razorpay_order_id
                      ELSE GeneratedId("order_", now),
          method |-> "razorpay"]
    ELSE [paymentId |-> GeneratedId("wallet_", now),
          orderId |-> GeneratedId("order_wallet_", now),
          method |-> "wallet"]

\* setTimeout(() => { onPaymentSuccess(...); setPaymentStep('select'); }, 1500)
PaymentSuccessTimer(timer, now) ==
    /\ CopiesIn(timer, dialog.timers) > 0
    /\ DialogStep("timer",
         [dialog EXCEPT !.timers = @ (-) SetToBag({timer}),
            !.onPaymentSuccess = Append(@, SuccessArgs(timer, now)),
            !.paymentStep = "select", !.now = now])

(* ------------------------ initiateRazorpayPayment ---------------------- *)

\* An initiateRazorpayPayment that does not validate the amount.
InitiateUnvalidated(amount, opens) ==
    /\ dialog.checkout = "closed"
    /\ DialogStep("initiateRazorpayPayment",
         IF ~dialog.scriptLoaded
         THEN [dialog EXCEPT !.started = @ + 1,
                 !.onFailure = Append(@, "Payment gateway not loaded")]
         ELSE IF opens
         THEN [dialog EXCEPT !.started = @ + 1, !.checkout = "initiate"]
         ELSE [dialog EXCEPT !.started = @ + 1,
                 !.onFailure = Append(@, "Failed to initialize payment gateway")])

\* initiateRazorpayPayment up to razorpay.open().
InitiateRazorpayPayment(amount, opens) ==
    /\ dialog.checkout = "closed"
    /\ DialogStep("initiateRazorpayPayment",
         IF ~dialog.scriptLoaded
         THEN [dialog EXCEPT !.started = @ + 1,
                 !.onFailure = Append(@, "Payment gateway not loaded")]
         ELSE IF amount <= 0
         THEN [dialog EXCEPT !.started = @ + 1,
                 !.onFailure = Append(@, "Invalid payment amount")]
         ELSE IF opens
         THEN [dialog EXCEPT !.started = @ + 1, !.checkout = "initiate"]
         ELSE [dialog EXCEPT !.started = @ + 1,
                 !.onFailure = Append(@, "Failed to initialize payment gateway")])

\* options.handler: onSuccess(payment id, order id or a generated one).
IrpHandler(response, now) ==
    /\ dialog.checkout = "initiate"
    /\ DialogStep("irp.handler",
         [dialog EXCEPT !.checkout = "closed", !.now = now,
            !.onSuccess = Append(@,
                [paymentId |-> response.razorpay_payment_id,
                 orderId |-> IF response.razorpay_order_id # Null
                             THEN response.razorpay_order_id
                             ELSE GeneratedId("order_", now)])])

\* options.modal.ondismiss: onFailure('Payment cancelled by user')
IrpDismiss ==
    /\ dialog.checkout = "initiate"
    /\ DialogStep("irp.ondismiss",
         [dialog EXCEPT !.checkout = "closed",
            !.onFailure = Append(@, "Payment cancelled by user")])

\* razorpay.on('payment.failed', ...): onFailure(description); the checkout
\* stays open for a retry.
IrpPaymentFailed ==
    /\ dialog.checkout = "initiate"
    /\ DialogStep("irp.payment.failed",
         [dialog EXCEPT !.onFailure = Append(@, "Payment failed")])

(* ------------------- DataProvider on localStorage ---------------------- *)

\* localStorage.getItem(key) of a key that was never set, and of one that was.
NoItem == [present |-> FALSE]

Item(value) == [present |-> TRUE, value |-> value]

EmptyStorage ==
    [tournaments |-> NoItem, registrations |-> NoItem, withdrawals |-> NoItem,
     transactions |-> NoItem]

\* const stored = localStorage.getItem(key);
\* if (stored) return parseDates(JSON.parse(stored)); ... return defaultValue;
LoadFromStorage(item, defaultValue) ==
    IF item.present THEN item.value ELSE defaultValue

MockTournaments ==
    [t \in TournamentIds |-> TournamentDoc("UPCOMING", 2, 5, OverlapTiers)]

mockRegistrations == << >>

mockWithdrawals == << >>

mockTransactions == << >>

\* The useEffect hooks: saveToStorage(key, state) after every change of state.
SaveToStorage(l) ==
    [l EXCEPT !.storage =
        [tournaments |-> Item(l.tournaments),
         registrations |-> Item(l.userRegistrations),
         withdrawals |-> Item(l.withdrawalRequests),
         transactions |-> Item(l.transactions)]]

\* The provider as it mounts over a browser's storage: the useState
\* initialisers, then the effects of the first render.
LocalMount(storage) ==
    SaveToStorage(
        [tournaments |-> LoadFromStorage(storage.tournaments, MockTournaments),
         userRegistrations |-> LoadFromStorage(storage.registrations, << >>),
         withdrawalRequests |-> LoadFromStorage(storage.withdrawals, << >>),
         transactions |-> LoadFromStorage(storage.transactions, << >>),
         isLoading |-> FALSE, pending |-> {}, storage |-> storage,
         now |-> 0, calls |-> 0])

\* One callback of the provider has run, with the effects of its render.
LocalStep(event, l) ==
    /\ local' = SaveToStorage(l)
    /\ settled' = [client |-> "local", op |-> event, result |-> "resolved"]
    /\ UNCHANGED << backend, tournaments, withdrawalRequests, pc, call,
                    distributed, opsStarted, dialog, auth, handlers >>

\* The page is loaded again: pending timers are gone, state comes from storage.
LocalReload ==
    /\ local # [LocalMount(local.storage) EXCEPT !.now = local.now,
                                                 !.calls = local.calls]
    /\ LocalStep("reload",
         [LocalMount(local.storage) EXCEPT !.now = local.now,
                                           !.calls = local.calls])

\* joinTournament of the local provider: no await, three state updates.
LocalJoinTournament(tournamentId, userId, paymentIdInput, now) ==
    LET tournament == local.tournaments[tournamentId]
        slotNumber == tournament.registeredCount + 1
        paymentId == IF paymentIdInput # Null THEN paymentIdInput
                     ELSE GeneratedId("pay_", now)
        newRegistration ==
            [id |-> GeneratedId("reg-", now), tournamentId |-> tournamentId,
             userId |-> userId, paymentId |-> paymentId,
             paymentStatus |-> "COMPLETED", slotNumber |-> slotNumber,
             isDisqualified |-> FALSE]
        entryFeeTransaction ==
            [id |-> GeneratedId("txn-", now), userId |-> userId,
             type |-> "ENTRY_FEE", amount |-> 0 - tournament.entryFee,
             referenceId |-> tournamentId]
    IN  LocalStep("joinTournament",
          [local EXCEPT
             !.userRegistrations = Append(@, newRegistration),
             !.transactions = << entryFeeTransaction >> \o @,
             !.tournaments[tournamentId].registeredCount = @ + 1,
             !.now = now, !.calls = @ + 1])

\* requestWithdrawal of the local provider:
\* setWithdrawalRequests(prev => [newRequest, ...prev])
LocalRequestWithdrawal(userId, amount, upiId, now) ==
    LET newRequest ==
            [id |-> GeneratedId("wd-", now), oderId |-> userId,
             amount |-> amount, status |-> "PENDING", upiId |-> upiId,
             processedAt |-> Null, processedBy |-> Null,
             rejectionReason |-> Null]
    IN  LocalStep("requestWithdrawal",
          [local EXCEPT !.withdrawalRequests = << newRequest >> \o @,
                        !.now = now, !.calls = @ + 1])

LocalFetches ==
    {"fetchUserRegistrations", "fetchTransactions", "fetchWithdrawalRequests"}

\* setIsLoading(true); await new Promise(resolve => setTimeout(resolve, ...))
LocalFetch(fetch, userId) ==
    /\ [op |-> fetch, userId |-> userId] \notin local.pending
    /\ LocalStep("fetch",
         [local EXCEPT !.isLoading = TRUE,
                       !.pending = @ \cup {[op |-> fetch, userId |-> userId]}])

\* The state a fetch sets when its timer has fired.
\* setUserRegistrations(mockRegistrations.filter(r => r.userId === userId));
\* setTransactions(mockTransactions.filter(t => t.userId === userId));
\* fetchWithdrawalRequests sets nothing but isLoading.
Fetched(l, p) ==
    IF p.op = "fetchUserRegistrations"
    THEN [l EXCEPT !.userRegistrations =
             SelectSeq(mockRegistrations, LAMBDA r : r.userId = p.userId)]
    ELSE IF p.op = "fetchTransactions"
    THEN [l EXCEPT !.transactions =
             SelectSeq(mockTransactions, LAMBDA t : t.userId = p.userId)]
    ELSE l

\* The timer of a fetch fires.
LocalFetchDone(p) ==
    /\ p \in local.pending
    /\ LocalStep(p.op,
         [Fetched(local, p) EXCEPT !.isLoading = FALSE,
                                   !.pending = @ \ {p}])

(* ---------------------------- initial states -------------------------- *)

\* The prize u1 holds, and asks to withdraw, when a behaviour of Spec starts.
SeedPrize == PrizeAmountFor(OverlapTiers, 1)

\* No withdrawals snapshot was delivered yet and no handler is running.
NoHandlers == [delivered |-> << >>, running |-> EmptyBag]

(* ------------------------------ AuthProvider --------------------------- *)

\* buildFallbackUser(fbUser): the balances are zero, the flags are false.
BuildFallbackUser(fbUser) ==
    [id |-> fbUser, walletBalance |-> 0, winningCredits |-> 0,
     isBanned |-> FALSE, isAdmin |-> FALSE]

\* The profile fetchUserProfile builds from the document data of users/uid.
ProfileOf(uid, data) ==
    [id |-> uid, walletBalance |-> data.walletBalance,
     winningCredits |-> data.winningCredits, isBanned |-> data.isBanned,
     isAdmin |-> data.isAdmin]

\* userData of signup, as stored by setDoc(doc(db, 'users', uid), userData).
SignupDoc == UserDoc(0, 0)

\* The profile signup hands to setUser after the document is stored.
SignupProfile(uid) ==
    [id |-> uid, walletBalance |-> 0, winningCredits |-> 0,
     isBanned |-> FALSE, isAdmin |-> FALSE]

\* user = null, written as a profile without an id.
NoUser ==
    [id |-> Null, walletBalance |-> 0, winningCredits |-> 0,
     isBanned |-> FALSE, isAdmin |-> FALSE]

\* The provider once the auth listener has reported that nobody is signed in:
\* no user, no profile read on its way, no signup running.  accounts are the
\* accounts of Firebase Authentication.
NoAuth ==
    [firebaseUser |-> Null, user |-> NoUser, isLoading |-> FALSE,
     fetches |-> EmptyBag, signup |-> Null,
     accounts |-> UserIds \cup {NoProfile}, started |-> 0]

\* isAdmin: user?.isAdmin ?? false
IsAdmin == IF auth.user = NoUser THEN FALSE ELSE auth.user.isAdmin

\* The onAuthStateChanged callback: a signed-in account keeps the profile
\* already in state (prev ?? buildFallbackUser(fbUser)) and queues
\* fetchUserProfile(fbUser.uid, fbUser) on a timer.
OnAuthStateChanged(a, fbUser) ==
    IF fbUser # Null
    THEN [a EXCEPT !.firebaseUser = fbUser,
                   !.user = IF @ # NoUser THEN @
                            ELSE BuildFallbackUser(fbUser),
                   !.isLoading = TRUE,
                   !.fetches = AddDoc(@, fbUser)]
    ELSE [a EXCEPT !.firebaseUser = Null, !.user = NoUser,
                   !.isLoading = FALSE]

\* One callback of the provider has run.
AuthStep(event, result, a) ==
    /\ auth' = a
    /\ settled' = [client |-> "auth", op |-> event, result |-> result]
    /\ UNCHANGED << tournamentDocs, registrations, transactions, withdrawals,
                    matchResults, tournaments, withdrawalRequests, pc, call,
                    distributed, opsStarted, dialog, local, handlers >>

\* login: signInWithEmailAndPassword resolves and the auth listener runs, or
\* it rejects and isLoading is reset.  The login page is shown to a signed-in
\* visitor as well.
Login(uid, ok) ==
    /\ auth.signup = Null
    /\ UNCHANGED users
    /\ LET a == [auth EXCEPT !.started = @ + 1]
       IN  IF ok /\ uid \in auth.accounts
           THEN AuthStep("login", "resolved", OnAuthStateChanged(a, uid))
           ELSE AuthStep("login", "rejected", [a EXCEPT !.isLoading = FALSE])

\* logout: await signOut(auth) (the auth listener runs with null);
\* setUser(null); finally setIsLoading(false).
Logout(ok) ==
    /\ auth.firebaseUser # Null
    /\ auth.signup = Null
    /\ UNCHANGED users
    /\ LET a == [auth EXCEPT !.started = @ + 1]
       IN  IF ok
           THEN AuthStep("logout", "resolved", OnAuthStateChanged(a, Null))
           ELSE AuthStep("logout", "rejected", [a EXCEPT !.isLoading = FALSE])

\* fetchUserProfile(uid, fbUser) of a queued timer runs to its end: the
\* document is read and mapped, or the fallback of the fbUser the fetch was
\* started for is set when the document is missing or the read fails.
FetchUserProfile(uid, ok) ==
    /\ CopiesIn(uid, auth.fetches) > 0
    /\ UNCHANGED users
    /\ LET a == [auth EXCEPT !.fetches = @ (-) SetToBag({uid}),
                             !.isLoading = FALSE]
       IN  IF ok /\ users[uid].exists
           THEN AuthStep("fetchUserProfile", "profile",
                         [a EXCEPT !.user = ProfileOf(uid, users[uid])])
           ELSE AuthStep("fetchUserProfile", "fallback",
                         [a EXCEPT !.user = BuildFallbackUser(uid)])

\* signup up to its second await: createUserWithEmailAndPassword makes the
\* account and signs it in (the auth listener runs), or rejects.
Signup(uid, ok) ==
    /\ auth.signup = Null
    /\ UNCHANGED users
    /\ LET a == [auth EXCEPT !.started = @ + 1]
       IN  IF ok /\ uid \notin auth.accounts
           THEN AuthStep("signup", "created",
                    [OnAuthStateChanged(a, uid) EXCEPT
                        !.accounts = @ \cup {uid}, !.signup = uid])
           ELSE AuthStep("signup", "rejected", [a EXCEPT !.isLoading = FALSE])

\* await setDoc(doc(db, 'users', uid), userData); setUser({...});
\* setIsLoading(false); or the catch when setDoc rejects.
SignupSetDoc(ok) ==
    /\ auth.signup # Null
    /\ IF ok
       THEN /\ users' = [users EXCEPT ![auth.signup] = SignupDoc]
            /\ AuthStep("signup", "resolved",
                   [auth EXCEPT !.user = SignupProfile(auth.signup),
                                !.isLoading = FALSE, !.signup = Null])
       ELSE /\ UNCHANGED users
            /\ AuthStep("signup", "rejected",
                   [auth EXCEPT !.isLoading = FALSE, !.signup = Null])

\* Browsers start with empty React state and no call running.
InitClients ==
    /\ tournaments = [c \in Clients |-> [t \in TournamentIds |-> NoDoc]]
    /\ withdrawalRequests = [c \in Clients |-> << >>]
    /\ pc = [c \in Clients |-> "idle"]
    /\ call = [c \in Clients |-> IdleCall]
    /\ settled = NoEvent
    /\ distributed = EmptyBag
    /\ opsStarted = 0
    /\ local = LocalMount(EmptyStorage)
    /\ auth = NoAuth
    /\ handlers = [c \in Clients |-> NoHandlers]

\* A backend on which nothing has been distributed yet: two player profiles,
\* one account without a profile document, one upcoming tournament.
FreshBackend ==
    /\ users = [u \in UserIds \cup {NoProfile} |->
                  IF u = NoProfile THEN NoDoc
                  ELSE UserDoc(IF u = "u1" THEN InitWallet ELSE 0, 0)]
    /\ tournamentDocs =
         [t \in TournamentIds |->
            IF t = "t1" THEN TournamentDoc("UPCOMING", 2, 5, OverlapTiers)
            ELSE NoDoc]
    /\ registrations = EmptyBag
    /\ transactions = EmptyBag
    /\ withdrawals = << >>
    /\ matchResults = EmptyBag

InitFresh ==
    /\ FreshBackend
    /\ InitClients
    /\ dialog = NoDialog

\* The dialog mounts signed out, or signed in with or without a balance that
\* covers the entry fee (user?.walletBalance || 0).
DialogMounts ==
    { [NoDialog EXCEPT !.user = m[1], !.walletBalance = m[2]] :
        m \in { << Null, 0 >>, << "u1", 0 >>, << "u1", InitWallet >> } }

InitPay ==
    /\ FreshBackend
    /\ InitClients
    /\ dialog \in DialogMounts

\* The backend after one earlier match: u1 took first place in t1, was paid
\* the prize, and has asked to withdraw it.
Init ==
    /\ users = [u \in UserIds \cup {NoProfile} |->
                  IF u = NoProfile THEN NoDoc
                  ELSE IF u = "u1" THEN UserDoc(InitWallet, SeedPrize)
                  ELSE UserDoc(0, 0)]
    /\ tournamentDocs =
         [t \in TournamentIds |->
            IF t = "t1" THEN TournamentDoc("LIVE", 2, 5, OverlapTiers)
            ELSE NoDoc]
    /\ registrations = EmptyBag
    /\ transactions = SetToBag({TransactionDoc("u1", "PRIZE", SeedPrize, "t1")})
    /\ withdrawals = << WithdrawalDoc("u1", SeedPrize, "upi") >>
    /\ matchResults = SetToBag({MatchResultDoc("t1", "u1", 1, 0, SeedPrize)})
    /\ InitClients
    /\ dialog = NoDialog

\* One admin browser issuing data-layer calls one after the other.
Admin == "a1"

Next ==
    \/ TournamentsSnapshot(Admin)
    \/ WithdrawalsSnapshot(Admin)
    \/ /\ opsStarted < MaxOps
       /\ \E t \in TournamentIds, rs \in ResultLists :
              DistributePrizes(Admin, t, rs)
    \/ DpAddMatchResult(Admin)
    \/ DpAddTransaction(Admin)
    \/ DpGetUser(Admin)
    \/ DpUpdateUser(Admin)
    \/ DpUpdateStatus(Admin)
    \/ DpFetchAllUsers(Admin)
    \/ /\ opsStarted < MaxOps
       /\ \E u \in UserIds, p \in PrizeArgs :
              AddTournamentResult(Admin, "t1", u, 1, p, 0)
    \/ AtrAddTransaction(Admin)
    \/ AtrGetUser(Admin)
    \/ AtrUpdateUser(Admin)
    \/ /\ opsStarted < MaxOps
       /\ \E u \in UserIds \cup {NoProfile}, a \in WithdrawalAmounts,
             upi \in UpiIds :
              RequestWithdrawal(Admin, u, a, upi)
    \/ RwGetUser(Admin)
    \/ RwAddDoc(Admin)
    \/ /\ opsStarted < MaxOps
       /\ \E r \in 1..(Len(withdrawals) + 1), approved \in BOOLEAN :
              ProcessWithdrawal(Admin, r, approved,
                  IF approved THEN Null ELSE "rejected by admin")
    \/ PwUpdateWithdrawal(Admin)
    \/ PwGetUser(Admin)
    \/ PwUpdateUser(Admin)
    \/ PwAddTransaction(Admin)

Spec == Init /\ [][Next]_vars

(* --------------------- two browsers at the same time ------------------- *)

\* Result lists of one first-place row.
RaceResults == { rs \in ResultLists : Len(rs) = 1 /\ rs[1].position = 1 }

NextRace ==
    \E c \in Clients :
        \/ TournamentsSnapshot(c)
        \/ WithdrawalsSnapshot(c)
        \/ /\ opsStarted < MaxRaceOps
           /\ \E rs \in RaceResults : DistributePrizes(c, "t1", rs)
        \/ DpAddMatchResult(c)
        \/ DpAddTransaction(c)
        \/ DpGetUser(c)
        \/ DpUpdateUser(c)
        \/ DpUpdateStatus(c)
        \/ DpFetchAllUsers(c)
        \/ /\ opsStarted < MaxRaceOps
           /\ \E u \in UserIds :
                  AddTournamentResult(c, "t1", u, 1, SeedPrize, 0)
        \/ AtrAddTransaction(c)
        \/ AtrGetUser(c)
        \/ AtrUpdateUser(c)
        \/ /\ opsStarted < MaxRaceOps
           /\ \E r \in 1..(Len(withdrawals) + 1), approved \in BOOLEAN :
                  ProcessWithdrawal(c, r, approved,
                      IF approved THEN Null ELSE "rejected by admin")
        \/ PwUpdateWithdrawal(c)
        \/ PwGetUser(c)
        \/ PwUpdateUser(c)
        \/ PwAddTransaction(c)

SpecRace == Init /\ [][NextRace]_vars

(* ------------------------- players joining ----------------------------- *)

\* paymentIdInput: the payment id handed over by the caller, if any.
PaymentIdInputs == {Null, "pay_rzp"}

NextJoin ==
    \E c \in Clients :
        \/ TournamentsSnapshot(c)
        \/ /\ opsStarted < MaxJoins
           /\ \E t \in TournamentIds, u \in UserIds, p \in PaymentIdInputs :
                  JoinTournament(c, t, u, p)
        \/ JtAddRegistration(c)
        \/ JtAddTransaction(c)
        \/ JtUpdateCount(c)

SpecJoin == InitFresh /\ [][NextJoin]_vars

(* ----------------------- the tournament admin page --------------------- *)

\* What the admin may leave in, or type into, the form fields.
MatchDateTimes == {"", "2026-01-01T10:00"}

TierForms == {<< >>, DisjointTiers}

RoomIds == {"", "room1"}

RoomPasswords == {"", "pass1"}

NextRoom ==
    \E c \in Clients :
        \/ TournamentsSnapshot(c)
        \/ /\ opsStarted < MaxAdminOps
           /\ \E d \in MatchDateTimes, tiers \in TierForms :
                  HandleCreateTournament(c, d, tiers)
        \/ /\ opsStarted < MaxAdminOps
           /\ \E t \in TournamentIds : DeleteTournament(c, t)
        \/ /\ opsStarted < MaxAdminOps
           /\ \E t \in TournamentIds,
                 status \in {"LIVE", "COMPLETED", "CANCELLED"} :
                  HandleStatusChange(c, t, status)
        \/ /\ opsStarted < MaxAdminOps
           /\ \E t \in TournamentIds : OpenRoomDialog(c, t)
        \/ CloseRoomDialog(c)
        \/ \E r \in RoomIds, p \in RoomPasswords : HandleReleaseRoom(c, r, p)
        \/ /\ opsStarted < MaxAdminOps
           /\ \E t \in TournamentIds : JoinTournament(c, t, "u1", Null)
        \/ JtAddRegistration(c)
        \/ JtAddTransaction(c)
        \/ JtUpdateCount(c)
        \/ /\ opsStarted < MaxAdminOps
           /\ \E t \in TournamentIds, rs \in RaceResults :
                  DistributePrizes(c, t, rs)
        \/ DpAddMatchResult(c)
        \/ DpAddTransaction(c)
        \/ DpGetUser(c)
        \/ DpUpdateUser(c)
        \/ DpUpdateStatus(c)
        \/ DpFetchAllUsers(c)

SpecRoom == InitFresh /\ [][NextRoom]_vars

(* ------------------------------ paying --------------------------------- *)

PaymentMethods == {"wallet", "razorpay"}

\* The amount argument: negative, zero, an entry fee.
PaymentAmounts == {0 - 5, 0, 5}

NextPay ==
    \/ LoadScript
    \/ CheckRazorpay
    \/ OpenDialog
    \/ HandleClose
    \/ \E m \in PaymentMethods : SetPaymentMethod(m)
    \/ /\ dialog.started < MaxPayments
       /\ \E opens \in BOOLEAN : HandleRazorpayPayment(opens)
    \/ \E r \in Responses : RazorpayHandler(r)
    \/ RazorpayDismiss
    \/ RazorpayPaymentFailed
    \/ /\ dialog.started < MaxPayments
       /\ HandleWalletPayment
    \/ WalletStepDone
    \/ \E timer \in BagToSet(dialog.timers),
          now \in ClockReadings(dialog.now) : PaymentSuccessTimer(timer, now)
    \/ /\ dialog.started < MaxPayments
       /\ \E amount \in PaymentAmounts, opens \in BOOLEAN :
              InitiateRazorpayPayment(amount, opens)
    \/ \E r \in Responses, now \in ClockReadings(dialog.now) :
          IrpHandler(r, now)
    \/ IrpDismiss
    \/ /\ Len(dialog.onFailure) < MaxPayments
       /\ IrpPaymentFailed

SpecPay == InitPay /\ [][NextPay]_vars

(* -------------------- disqualifyPlayer, banUser, deleteUser ------------- *)

\* await updateDoc(doc(db, 'registrations', registrationId),
\*                 { isDisqualified: true, disqualificationReason: reason })
DisqualifyPlayer(c, registration, reason) ==
    /\ Idle(c)
    /\ CopiesIn(registration, registrations) > 0
    /\ opsStarted' = opsStarted + 1
    /\ UNCHANGED << users, tournamentDocs, transactions, withdrawals,
                    matchResults, tournaments, withdrawalRequests, pc, call,
                    dialog, local, auth, handlers >>
    /\ \/ /\ Toast(c, "disqualifyPlayer", "rejected")
          /\ UNCHANGED registrations
       \/ /\ registrations' =
                 AddDoc(registrations (-) SetToBag({registration}),
                        [d \in DOMAIN registration \cup
                               {"disqualificationReason"} |->
                            IF d = "isDisqualified" THEN TRUE
                            ELSE IF d = "disqualificationReason" THEN reason
                            ELSE registration[d]])
          /\ Toast(c, "disqualifyPlayer", "resolved")

\* await updateDoc(doc(db, 'users', oderId), { isBanned: true })
BanUser(c, oderId) ==
    /\ Idle(c)
    /\ opsStarted' = opsStarted + 1
    /\ UNCHANGED << tournamentDocs, registrations, transactions, withdrawals,
                    matchResults, tournaments, withdrawalRequests, pc, call,
                    dialog, local, auth, handlers >>
    /\ \/ /\ Toast(c, "banUser", "rejected")
          /\ UNCHANGED users
       \/ /\ users[oderId].exists
          /\ users' = [users EXCEPT ![oderId].isBanned = TRUE]
          /\ Toast(c, "banUser", "resolved")

\* await deleteDoc(doc(db, 'users', oderId))
DeleteUser(c, oderId) ==
    /\ Idle(c)
    /\ opsStarted' = opsStarted + 1
    /\ UNCHANGED << tournamentDocs, registrations, transactions, withdrawals,
                    matchResults, tournaments, withdrawalRequests, pc, call,
                    dialog, local, auth, handlers >>
    /\ \/ /\ Toast(c, "deleteUser", "rejected")
          /\ UNCHANGED users
       \/ /\ users' = [users EXCEPT ![oderId] = NoDoc]
          /\ Toast(c, "deleteUser", "resolved")

\* Reasons typed by the admin.
Reasons == {"cheating"}

(* ------------------- every operation, one admin browser ---------------- *)

NextErrors ==
    \/ TournamentsSnapshot(Admin)
    \/ WithdrawalsSnapshot(Admin)
    \/ /\ opsStarted < MaxErrorOps
       /\ \E rs \in RaceResults : DistributePrizes(Admin, "t1", rs)
    \/ DpAddMatchResult(Admin)
    \/ DpAddTransaction(Admin)
    \/ DpGetUser(Admin)
    \/ DpUpdateUser(Admin)
    \/ DpUpdateStatus(Admin)
    \/ DpFetchAllUsers(Admin)
    \/ /\ opsStarted < MaxErrorOps
       /\ AddTournamentResult(Admin, "t1", "u1", 1, SeedPrize, 0)
    \/ AtrAddTransaction(Admin)
    \/ AtrGetUser(Admin)
    \/ AtrUpdateUser(Admin)
    \/ /\ opsStarted < MaxErrorOps
       /\ \E upi \in UpiIds : RequestWithdrawal(Admin, "u1", SeedPrize, upi)
    \/ RwGetUser(Admin)
    \/ RwAddDoc(Admin)
    \/ /\ opsStarted < MaxErrorOps
       /\ \E r \in 1..Len(withdrawals), approved \in BOOLEAN :
              ProcessWithdrawal(Admin, r, approved,
                  IF approved THEN Null ELSE "rejected by admin")
    \/ PwUpdateWithdrawal(Admin)
    \/ PwGetUser(Admin)
    \/ PwUpdateUser(Admin)
    \/ PwAddTransaction(Admin)
    \/ /\ opsStarted < MaxErrorOps
       /\ JoinTournament(Admin, "t1", "u1", Null)
    \/ /\ opsStarted < MaxErrorOps
       /\ \E r \in BagToSet(registrations), reason \in Reasons :
              DisqualifyPlayer(Admin, r, reason)
    \/ /\ opsStarted < MaxErrorOps
       /\ \E u \in UserIds : BanUser(Admin, u)
    \/ /\ opsStarted < MaxErrorOps
       /\ \E u \in UserIds : DeleteUser(Admin, u)
    \/ JtAddRegistration(Admin)
    \/ JtAddTransaction(Admin)
    \/ JtUpdateCount(Admin)
    \/ /\ opsStarted < MaxErrorOps
       /\ \E d \in MatchDateTimes, tiers \in TierForms :
              HandleCreateTournament(Admin, d, tiers)
    \/ /\ opsStarted < MaxErrorOps
       /\ \E t \in TournamentIds : DeleteTournament(Admin, t)
    \/ /\ opsStarted < MaxErrorOps
       /\ \E t \in TournamentIds,
             status \in {"LIVE", "COMPLETED", "CANCELLED"} :
              HandleStatusChange(Admin, t, status)
    \/ /\ opsStarted < MaxErrorOps
       /\ \E t \in TournamentIds : OpenRoomDialog(Admin, t)
    \/ CloseRoomDialog(Admin)
    \/ \E r \in RoomIds, p \in RoomPasswords : HandleReleaseRoom(Admin, r, p)

SpecErrors == Init /\ [][NextErrors]_vars

(* ======================================================================= *)
(*                              properties                                 *)
(* ======================================================================= *)

Max0(n) == IF n > 0 THEN n ELSE 0

\* The user of the result the distributePrizes call of c is working on.
DpUser(c) == call[c].results[call[c].idx].oderId

\* C1: winningCredits is updated read-then-write without locking or retry:
\* whenever a distributePrizes, addTournamentResult or processWithdrawal call
\* writes a user's winningCredits, the value stored is computed from the
\* credits that call read earlier, whatever the document holds by then, so a
\* write that landed in between is overwritten.
C1_WriteFromStaleRead ==
    [][\A c \in Clients :
        /\ (pc[c] = "dp_updateUser" /\ pc'[c] \notin {"dp_updateUser", "idle"})
             => users'[DpUser(c)].winningCredits =
                  call[c].currentCredits + call[c].prizeAmount
        /\ (pc[c] = "atr_updateUser" /\ settled'.client = c
              /\ settled'.result = "resolved")
             => users'[call[c].oderId].winningCredits =
                  call[c].currentCredits + call[c].prizeAmount
        /\ (pc[c] = "pw_updateUser" /\ pc'[c] = "pw_addTransaction")
             => users'[call[c].request.oderId].winningCredits =
                  Max0(call[c].currentCredits - call[c].request.amount)
      ]_vars

\* C1 witness: a distribution that paid u1 a second first-place prize and the
\* approval of u1's withdrawal both ran to their end, and u1 still holds
\* both prizes: the deduction was overwritten by the credit.
C1_LostDebit ==
    /\ \A c \in Clients : Idle(c)
    /\ tournamentDocs["t1"].status = "COMPLETED"
    /\ withdrawals[1].status = "APPROVED"
    /\ CopiesIn(TransactionDoc("u1", "PRIZE", SeedPrize, "t1"), transactions) = 2
    /\ CopiesIn(TransactionDoc("u1", "WITHDRAWAL", 0 - SeedPrize, 1),
                transactions) = 1
    /\ users["u1"].winningCredits = 2 * SeedPrize

\* C2: when a backend call of distributePrizes fails, the call rejects and
\* that step changes nothing in the backend: what earlier entries wrote stays
\* and the tournament status is not touched; documents are never removed
\* from matchResults or transactions; and the call resolves only after its
\* status update has made the tournament COMPLETED.
C2_PartialFailureStays ==
    [][/\ matchResults \sqsubseteq matchResults'
       /\ transactions \sqsubseteq transactions'
       /\ \A c \in Clients :
            (call[c].op = "distributePrizes" /\ pc'[c] = "idle") =>
               /\ settled'.client = c
               /\ settled'.result \in {"rejected", "resolved"}
               /\ settled'.result = "rejected" => backend' = backend
               /\ settled'.result = "resolved" =>
                    /\ pc[c] = "dp_fetchAllUsers"
                    /\ tournamentDocs[call[c].tournamentId].status = "COMPLETED"
      ]_vars

\* C2 witness: the only call so far, a distribution, was rejected while it
\* worked on its second entry: the first entry's result, PRIZE transaction
\* and credit are in place, the second entry's result and transaction too,
\* its credit is not, and the tournament is still LIVE.
C2_RejectedMidLoop ==
    /\ settled = [client |-> Admin, op |-> "distributePrizes",
                  result |-> "rejected"]
    /\ opsStarted = 1
    /\ BagCardinality(matchResults) = 3
    /\ BagCardinality(transactions) = 3
    /\ users["u1"].winningCredits = 2 * SeedPrize
    /\ users["u2"].winningCredits = 0
    /\ tournamentDocs["t1"].status = "LIVE"

RECURSIVE SumSeq(_)
SumSeq(ns) == IF ns = << >> THEN 0 ELSE Head(ns) + SumSeq(Tail(ns))

\* What one resolved distribution of `results` pays `user` under `tiers`.
CallPrize(tiers, results, user) ==
    SumSeq([i \in DOMAIN results |->
              IF results[i].oderId = user
              THEN PrizeAmountFor(tiers, results[i].position) ELSE 0])

RECURSIVE SumCalls(_, _)
SumCalls(calls, user) ==
    IF calls = {} THEN 0
    ELSE LET d == CHOOSE x \in calls : TRUE
         IN  CopiesIn(d, distributed)
               * CallPrize(tournamentDocs[d.tournamentId].prizeTiers,
                           d.results, user)
             + SumCalls(calls \ {d}, user)

\* Prizes paid to `user` by the distributions that resolved so far.
DistributedPrize(user) == SumCalls(BagToSet(distributed), user)

\* C3: distributePrizes is not idempotent: every distribution that resolved,
\* a repeated one included, recorded a match result for each of its entries
\* and a PRIZE transaction for each paid entry, and, as long as no withdrawal
\* request has been processed, each user holds at least the prizes of all of
\* them.
C3_EveryDistributionCounts ==
    /\ \A d \in BagToSet(distributed) : \A i \in DOMAIN d.results :
         LET r == d.results[i]
             prize == PrizeAmountFor(tournamentDocs[d.tournamentId].prizeTiers,
                                     r.position)
         IN  /\ CopiesIn(MatchResultDoc(d.tournamentId, r.oderId, r.position,
                                        r.kills, prize), matchResults)
                  >= CopiesIn(d, distributed)
             /\ prize > 0 =>
                  CopiesIn(TransactionDoc(r.oderId, "PRIZE", prize,
                                          d.tournamentId), transactions)
                    >= CopiesIn(d, distributed)
    /\ (\A w \in DOMAIN withdrawals : withdrawals[w].processedAt = Null) =>
         \A u \in UserIds :
            users[u].winningCredits
              >= (IF u = "u1" THEN SeedPrize ELSE 0) + DistributedPrize(u)

\* C3 witness: the same result list was distributed twice for t1 and u1 was
\* paid the first-place prize both times, on top of the prize held before.
C3_PaidTwice ==
    LET d == [tournamentId |-> "t1",
              results |-> << [oderId |-> "u1", position |-> 1, kills |-> 0] >>]
    IN  /\ CopiesIn(d, distributed) = 2
        /\ CopiesIn(MatchResultDoc("t1", "u1", 1, 0, SeedPrize), matchResults) = 3
        /\ CopiesIn(TransactionDoc("u1", "PRIZE", SeedPrize, "t1"),
                    transactions) = 3
        /\ users["u1"].winningCredits = 3 * SeedPrize

\* C4: requestWithdrawal adds a withdrawal document only after reading an
\* existing users document whose winningCredits cover the amount, and the
\* document added is the PENDING request for that user and amount; when the
\* users document is missing or the credits read are short, the call rejects
\* with 'User not found' or 'Insufficient winning credits' (or with the read
\* error) and the backend is left as it was.
C4_WithdrawalNeedsCredits ==
    [][\A c \in Clients :
        /\ (pc[c] = "rw_getUser" /\ pc'[c] # "rw_getUser") =>
             LET userDoc == users[call[c].oderId]
             IN  /\ backend' = backend
                 /\ ~userDoc.exists =>
                      /\ pc'[c] = "idle"
                      /\ settled'.result \in {"User not found", "rejected"}
                 /\ (userDoc.exists
                       /\ userDoc.winningCredits < call[c].amount) =>
                      /\ pc'[c] = "idle"
                      /\ settled'.result \in
                           {"Insufficient winning credits", "rejected"}
        /\ (pc[c] = "rw_addDoc" /\ withdrawals' # withdrawals) =>
             /\ call[c].userDoc.exists
             /\ call[c].amount <= call[c].userDoc.winningCredits
             /\ withdrawals' = Append(withdrawals,
                    WithdrawalDoc(call[c].oderId, call[c].amount,
                                  call[c].upiId))
        /\ (call[c].op = "requestWithdrawal" /\ pc[c] # "rw_addDoc") =>
             withdrawals' = withdrawals
      ]_vars

\* C4 witness: a second withdrawal request of u1, for the prize held, was
\* read, checked and created.
C4_RequestCreated ==
    /\ settled = [client |-> Admin, op |-> "requestWithdrawal",
                  result |-> "resolved"]
    /\ Len(withdrawals) = 2
    /\ withdrawals[2] = WithdrawalDoc("u1", SeedPrize, "upi")

\* C6: no step of distributePrizes, addTournamentResult, requestWithdrawal or
\* processWithdrawal changes a user's walletBalance.
C6_WalletUntouched ==
    [][\A u \in UserIds :
          users'[u].walletBalance = users[u].walletBalance]_vars

\* C6 witness: u1 was paid a second prize and had the withdrawal approved and
\* deducted, and still has the deposited balance the behaviour started with.
C6_PaidAndWithdrawn ==
    /\ settled = [client |-> Admin, op |-> "processWithdrawal",
                  result |-> "resolved"]
    /\ withdrawals[1].status = "APPROVED"
    /\ BagCardinality(matchResults) = 2
    /\ users["u1"].winningCredits = SeedPrize
    /\ CopiesIn(TransactionDoc("u1", "WITHDRAWAL", 0 - SeedPrize, 1),
                transactions) = 1
    /\ users["u1"].walletBalance = InitWallet

\* The prizeAmount of the first tier, in list order, that contains the
\* position; 0 when no tier contains it.
FirstTierPrize(tiers, position) ==
    LET hits == { i \in DOMAIN tiers : tiers[i].rankStart <= position
                                        /\ position <= tiers[i].rankEnd }
    IN  IF hits = {} THEN 0
        ELSE tiers[CHOOSE i \in hits : \A j \in hits : i <= j].prizeAmount

\* C7: the match result distributePrizes records for a result at position p
\* carries the prize of the first tier of the tournament's list containing
\* p, or 0 when none does; with prize 0 the call goes straight on to the next
\* result or to the status update, writing no transaction and no credit.
C7_FirstMatchingTier ==
    [][\A c \in Clients :
        (pc[c] = "dp_addResult" /\ matchResults' # matchResults) =>
           LET r == call[c].results[call[c].idx]
               prize == FirstTierPrize(
                            tournamentDocs[call[c].tournamentId].prizeTiers,
                            r.position)
           IN  /\ matchResults' = AddDoc(matchResults,
                      MatchResultDoc(call[c].tournamentId, r.oderId,
                                     r.position, r.kills, prize))
               /\ transactions' = transactions
               /\ users' = users
               /\ prize > 0 => /\ pc'[c] = "dp_addTransaction"
                               /\ call'[c].prizeAmount = prize
               /\ prize = 0 =>
                    /\ pc'[c] = IF call[c].idx < Len(call[c].results)
                                THEN "dp_addResult" ELSE "dp_updateStatus"
                    /\ call'[c].idx = IF call[c].idx < Len(call[c].results)
                                      THEN call[c].idx + 1 ELSE call[c].idx
      ]_vars

\* C7 witness: one distribution ranked u1 third (no tier) and u2 first (both
\* tiers of t1 contain rank 1): both results are recorded, u2 was paid the
\* first tier's prize, and u1 got no transaction and no credit.
C7_UnpaidAndOverlap ==
    /\ settled = [client |-> Admin, op |-> "distributePrizes",
                  result |-> "resolved"]
    /\ opsStarted = 1
    /\ CopiesIn(MatchResultDoc("t1", "u1", 3, 0, 0), matchResults) = 1
    /\ CopiesIn(MatchResultDoc("t1", "u2", 1, 0,
                               OverlapTiers[1].prizeAmount), matchResults) = 1
    /\ BagCardinality(transactions) = 2
    /\ users["u1"].winningCredits = SeedPrize
    /\ users["u2"].winningCredits = OverlapTiers[1].prizeAmount

(* ------------------------------- capacity ------------------------------ *)

\* C5: in every reachable state each tournament has registeredCount <=
\* maxPlayers, whatever joinTournament calls the clients issue and however
\* they interleave.
C5_CountWithinCapacity ==
    \A t \in TournamentIds :
        tournamentDocs[t].exists =>
            tournamentDocs[t].registeredCount <= tournamentDocs[t].maxPlayers

(* ----------------------------- room release ---------------------------- *)

\* A tournament whose room is released carries both credentials.
RoomComplete(d) ==
    (d.exists /\ d.roomReleased) =>
        /\ d.roomId # Null /\ d.roomId # ""
        /\ d.roomPassword # Null /\ d.roomPassword # ""

\* C8: a released room always has a room id and a password, in the store and
\* in every browser's list; a tournament is created with no room and not
\* released; the room fields change only in one update that sets both
\* credentials and roomReleased = true; roomReleased never goes back to false.
C8_RoomReleaseComplete ==
    /\ [](\A t \in TournamentIds :
            /\ RoomComplete(tournamentDocs[t])
            /\ \A c \in Clients : RoomComplete(tournaments[c][t]))
    /\ [][\A t \in TournamentIds :
            /\ (~tournamentDocs[t].exists /\ tournamentDocs'[t].exists) =>
                  /\ ~tournamentDocs'[t].roomReleased
                  /\ tournamentDocs'[t].roomId = Null
                  /\ tournamentDocs'[t].roomPassword = Null
            /\ (tournamentDocs[t].exists /\ tournamentDocs'[t].exists) =>
                  /\ tournamentDocs[t].roomReleased =>
                        tournamentDocs'[t].roomReleased
                  /\ ( \/ tournamentDocs'[t].roomId # tournamentDocs[t].roomId
                       \/ tournamentDocs'[t].roomPassword #
                              tournamentDocs[t].roomPassword
                       \/ tournamentDocs'[t].roomReleased #
                              tournamentDocs[t].roomReleased ) =>
                        /\ tournamentDocs'[t].roomReleased
                        /\ settled'.op = "handleReleaseRoom"
                        /\ settled'.result = "released"
                        /\ RoomComplete(tournamentDocs'[t])
         ]_vars

\* One admin opened the room dialog of t1 while it was upcoming, the other
\* started or cancelled t1 meanwhile, and the first then released the room.
C8_ReleasedAfterStatusChange ==
    /\ tournamentDocs["t1"].exists
    /\ tournamentDocs["t1"].roomReleased
    /\ tournamentDocs["t1"].status # "UPCOMING"
    /\ settled.op = "handleReleaseRoom"
    /\ settled.result = "released"

(* ------------------------- payment and callback ------------------------ *)

\* The dialog events after which no payment has been made.
UnpaidEvents ==
    {"ondismiss", "payment.failed", "handleRazorpayPayment",
     "handleWalletPayment", "handleClose", "open", "setPaymentMethod",
     "script", "checkRazorpay"}

\* C9: onPaymentSuccess runs only from a timer that the checkout's success
\* handler or the completed wallet step has set; a dismissed checkout, a
\* payment.failed event or an initialization error sets no timer and calls
\* nothing.
C9_SuccessOnlyAfterPayment ==
    /\ [](Len(dialog.onPaymentSuccess) + BagCardinality(dialog.timers)
             = dialog.paid)
    /\ [][/\ dialog'.paid # dialog.paid =>
                /\ dialog'.paid = dialog.paid + 1
                /\ settled'.op \in {"handler", "walletDone"}
          /\ dialog'.onPaymentSuccess # dialog.onPaymentSuccess =>
                /\ settled'.op = "timer"
                /\ Len(dialog'.onPaymentSuccess) =
                       Len(dialog.onPaymentSuccess) + 1
                /\ BagCardinality(dialog'.timers) =
                       BagCardinality(dialog.timers) - 1
          /\ dialog'.timers # dialog.timers =>
                settled'.op \in {"handler", "walletDone", "timer"}
          /\ settled'.op \in UnpaidEvents =>
                /\ dialog'.timers = dialog.timers
                /\ dialog'.onPaymentSuccess = dialog.onPaymentSuccess
                /\ dialog'.paid = dialog.paid
         ]_vars

\* Two payments were started: one was reported by the checkout and its
\* callback has run, the other checkout was dismissed.
C9_OnePaidOneDismissed ==
    /\ dialog.started = 2
    /\ Len(dialog.onPaymentSuccess) = 1
    /\ dialog.timers = EmptyBag
    /\ settled.op = "ondismiss"

\* order id || `order_${Date.now()}`
OrderIdOr(response, now) ==
    IF response.razorpay_order_id # Null THEN response.razorpay_order_id
    ELSE GeneratedId("order_", now)

\* C10: every response the checkout reports as a success is accepted, with
\* any signature or none: the dialog sets the callback timer for it, the
\* timer calls onPaymentSuccess with the response's payment id and its order
\* id or a generated one, and initiateRazorpayPayment calls onSuccess with
\* the same two values; no argument depends on the signature.
C10_SignatureIgnored ==
    [][/\ settled'.op = "handler" =>
             /\ dialog'.paymentStep = "success"
             /\ \E r \in Responses :
                    dialog'.timers =
                        dialog.timers (+)
                        SetToBag({[method |-> "razorpay", response |-> r]})
       /\ settled'.op = "timer" =>
             \E timer \in BagToSet(dialog.timers) :
                 /\ dialog'.timers = dialog.timers (-) SetToBag({timer})
                 /\ timer.method = "razorpay" =>
                       dialog'.onPaymentSuccess =
                           Append(dialog.onPaymentSuccess,
                               [paymentId |->
                                    timer.response.razorpay_payment_id,
                                orderId |->
                                    OrderIdOr(timer.response, dialog'.now),
                                method |-> "razorpay"])
       /\ settled'.op = "irp.handler" =>
             \E r \in Responses :
                 dialog'.onSuccess =
                     Append(dialog.onSuccess,
                         [paymentId |-> r.razorpay_payment_id,
                          orderId |-> OrderIdOr(r, dialog'.now)])
      ]_vars

\* One payment without an order id has been passed to onPaymentSuccess with a
\* generated order id, and the handler has just accepted a second response
\* that carries a forged signature: its callback timer is set.
C10_ForgedAccepted ==
    /\ Len(dialog.onPaymentSuccess) = 1
    /\ dialog.onPaymentSuccess[1] =
           [paymentId |-> "pay_rzp", orderId |-> GeneratedId("order_", 1),
            method |-> "razorpay"]
    /\ settled.op = "handler"
    /\ dialog.paymentStep = "success"
    /\ \E timer \in BagToSet(dialog.timers) :
           timer.response.razorpay_signature = "forged"

(* --------------------- documented security rules ----------------------- *)

\* request.auth.uid of the session a browser runs under (user?.id).
Uid(c) == c

\* The browsers that take a step of a data-layer call.
Actors == { c \in Clients : pc'[c] # pc[c] \/ call'[c] # call[c] }

\* C11: a users document is updated only by the account it belongs to: no
\* step of a call run under another account (prize distribution, withdrawal
\* approval, addTournamentResult) changes someone else's users document.
C11_OwnProfileOnly ==
    [][\A u \in UserIds :
          users'[u] # users[u] => \A c \in Actors : Uid(c) = u]_vars

\* C12: no client-side operation (joinTournament, addTournamentResult,
\* distributePrizes, processWithdrawal) writes a document to the
\* transactions collection.
C12_NoClientTransactionWrite ==
    [][transactions' = transactions]_vars

(* --------------------------- failures surface -------------------------- *)

\* handleApprove, handleReject, handleDistributePrizes:
\* try { await call; toast.success(...) } catch (error) { toast.error(...) }
HandlerToast(event) ==
    IF event.op \in {"distributePrizes", "processWithdrawal"}
    THEN IF event.result = "rejected" THEN "error" ELSE "success"
    ELSE IF event.op \in {"handleCreateTournament", "handleStatusChange",
                          "handleReleaseRoom"}
    THEN IF event.result \in {"failed", "invalid"} THEN "error"
         ELSE IF event.result = "closed" THEN "none" ELSE "success"
    ELSE "none"

\* The awaits of the data layer that write to the backend.
WriteAwaits ==
    {"dp_addResult", "dp_addTransaction", "dp_updateUser", "dp_updateStatus",
     "atr_addTransaction", "atr_updateUser", "rw_addDoc",
     "pw_updateWithdrawal", "pw_updateUser", "pw_addTransaction",
     "jt_addRegistration", "jt_addTransaction", "jt_updateCount"}

\* The write the call of c is waiting for is in place after the step.
WriteApplied(c) ==
    LET l == call[c]
    IN  CASE pc[c] = "dp_addResult" ->
               \E prize \in {0} \cup {l.prizeTiers[i].prizeAmount :
                                        i \in DOMAIN l.prizeTiers} :
                   matchResults' = AddDoc(matchResults,
                       MatchResultDoc(l.tournamentId, l.results[l.idx].oderId,
                           l.results[l.idx].position, l.results[l.idx].kills,
                           prize))
          [] pc[c] = "dp_addTransaction" ->
               transactions' = AddDoc(transactions,
                   TransactionDoc(l.results[l.idx].oderId, "PRIZE",
                                  l.prizeAmount, l.tournamentId))
          [] pc[c] = "dp_updateUser" ->
               /\ users[l.results[l.idx].oderId].exists
               /\ users'[l.results[l.idx].oderId].winningCredits =
                      l.currentCredits + l.prizeAmount
          [] pc[c] = "dp_updateStatus" ->
               /\ tournamentDocs[l.tournamentId].exists
               /\ tournamentDocs'[l.tournamentId].status = "COMPLETED"
          [] pc[c] = "atr_addTransaction" ->
               transactions' = AddDoc(transactions,
                   TransactionDoc(l.oderId, "PRIZE", l.prizeAmount,
                                  l.tournamentId))
          [] pc[c] = "atr_updateUser" ->
               /\ users[l.oderId].exists
               /\ users'[l.oderId].winningCredits =
                      l.currentCredits + l.prizeAmount
          [] pc[c] = "rw_addDoc" ->
               withdrawals' = Append(withdrawals,
                   WithdrawalDoc(l.oderId, l.amount, l.upiId))
          [] pc[c] = "pw_updateWithdrawal" ->
               /\ withdrawals'[l.requestId].status =
                      IF l.approved THEN "APPROVED" ELSE "REJECTED"
               /\ withdrawals'[l.requestId].processedAt # Null
          [] pc[c] = "pw_updateUser" ->
               /\ users[l.request.oderId].exists
               /\ users'[l.request.oderId].winningCredits =
                      Max0(l.currentCredits - l.request.amount)
          [] pc[c] = "pw_addTransaction" ->
               transactions' = AddDoc(transactions,
                   TransactionDoc(l.request.oderId, "WITHDRAWAL",
                                  0 - l.request.amount, l.requestId))
          [] pc[c] = "jt_addRegistration" ->
               registrations' = AddDoc(registrations,
                   RegistrationDoc(l.tournamentId, l.oderId, l.paymentId,
                                   l.slotNumber))
          [] pc[c] = "jt_addTransaction" ->
               transactions' = AddDoc(transactions,
                   TransactionDoc(l.oderId, "ENTRY_FEE", 0 - l.entryFee,
                                  l.tournamentId))
          [] pc[c] = "jt_updateCount" ->
               /\ tournamentDocs[l.tournamentId].exists
               /\ tournamentDocs'[l.tournamentId].registeredCount =
                      l.slotNumber
          [] OTHER -> TRUE

\* C13: when the backend write a data-layer call is waiting for does not
\* happen, the call rejects there and then, leaving the backend as it was,
\* and the handler awaiting it shows its failure notification; an admin
\* handler shows its success notification only when its write is in place,
\* and its failure notification when the write failed.
C13_WriteFailureSurfaces ==
    [][/\ \A c \in Clients :
            (pc[c] \in WriteAwaits /\ c \in Actors /\ ~WriteApplied(c)) =>
                /\ settled' = [client |-> c, op |-> call[c].op,
                               result |-> "rejected"]
                /\ pc'[c] = "idle"
                /\ backend' = backend
                /\ call[c].op \in {"distributePrizes", "processWithdrawal"}
                       => HandlerToast(settled') = "error"
       /\ (Idle(Admin) /\ pc'[Admin] = "atr_addTransaction") =>
             BagCardinality(matchResults') = BagCardinality(matchResults) + 1
       /\ (Idle(Admin) /\ settled'.op = "addTournamentResult") =>
             /\ settled'.result = "rejected"
             /\ backend' = backend
       /\ (opsStarted' # opsStarted /\ settled'.op = "handleCreateTournament") =>
             \/ /\ HandlerToast(settled') = "error"
                /\ backend' = backend
             \/ /\ HandlerToast(settled') = "success"
                /\ \E t \in TournamentIds :
                      /\ ~tournamentDocs[t].exists
                      /\ tournamentDocs'[t].exists
                      /\ tournamentDocs'[t].status = "UPCOMING"
       /\ (opsStarted' # opsStarted /\ settled'.op = "handleStatusChange") =>
             \/ /\ HandlerToast(settled') = "error"
                /\ backend' = backend
             \/ /\ HandlerToast(settled') = "success"
                /\ \E t \in TournamentIds :
                      /\ tournamentDocs[t].exists
                      /\ tournamentDocs'[t].status \in
                             StatusButtons(tournaments[Admin][t].status)
                      /\ tournamentDocs' =
                             [tournamentDocs EXCEPT ![t].status =
                                  tournamentDocs'[t].status]
       /\ (settled'.op = "handleReleaseRoom" /\ pc[Admin] = "roomDialog") =>
             \/ /\ HandlerToast(settled') = "error"
                /\ backend' = backend
             \/ /\ settled'.result = "closed"
                /\ backend' = backend
             \/ /\ HandlerToast(settled') = "success"
                /\ tournamentDocs[call[Admin].selectedTournament].exists
                /\ tournamentDocs'[call[Admin].selectedTournament].roomReleased
       /\ (opsStarted' # opsStarted /\ settled'.op = "disqualifyPlayer") =>
             \/ /\ settled'.result = "rejected"
                /\ backend' = backend
             \/ /\ settled'.result = "resolved"
                /\ \E r \in BagToSet(registrations) :
                      registrations' (-) (registrations (-) SetToBag({r}))
                          \in { SetToBag({d}) :
                                   d \in { x \in BagToSet(registrations') :
                                              x.isDisqualified } }
       /\ (opsStarted' # opsStarted /\ settled'.op = "banUser") =>
             \/ /\ settled'.result = "rejected"
                /\ backend' = backend
             \/ /\ settled'.result = "resolved"
                /\ \E u \in UserIds :
                      users[u].exists /\ users'[u].isBanned
       /\ (opsStarted' # opsStarted /\ settled'.op = "deleteUser") =>
             \/ /\ settled'.result = "rejected"
                /\ backend' = backend
             \/ /\ settled'.result = "resolved"
                /\ \E u \in UserIds : users'[u] = NoDoc
       /\ (opsStarted' # opsStarted /\ settled'.op = "deleteTournament") =>
             \/ /\ settled'.result = "rejected"
                /\ backend' = backend
             \/ /\ settled'.result = "resolved"
                /\ \E t \in TournamentIds : tournamentDocs'[t] = DeletedDoc
      ]_vars

\* addTournamentResult has recorded the result, failed at the write of the
\* prize transaction and rejected: the result stays, nothing else was written.
C13_RejectedAtTransaction ==
    /\ settled = [client |-> Admin, op |-> "addTournamentResult",
                  result |-> "rejected"]
    /\ opsStarted = 1
    /\ BagCardinality(matchResults) = 2
    /\ BagCardinality(transactions) = 1

(* ------------------- the provider on localStorage ----------------------- *)

NextLocal ==
    \/ /\ local.calls < MaxLocalCalls
       /\ \E pay \in PaymentIdInputs, now \in ClockReadings(local.now) :
              LocalJoinTournament("t1", "u1", pay, now)
    \/ /\ local.calls < MaxLocalCalls
       /\ \E amount \in WithdrawalAmounts, upi \in UpiIds,
             now \in ClockReadings(local.now) :
              LocalRequestWithdrawal("u1", amount, upi, now)
    \/ \E fetch \in LocalFetches : LocalFetch(fetch, "u1")
    \/ \E p \in local.pending : LocalFetchDone(p)
    \/ LocalReload

SpecLocal == InitFresh /\ [][NextLocal]_vars

\* C14: a fetch of the local-storage provider that completes after
\* joinTournament leaves the registrations, transactions and withdrawal
\* requests the provider holds, and their storage keys, as they were.
C14_FetchKeepsPersisted ==
    [][(settled'.client = "local" /\ settled'.op \in LocalFetches) =>
          /\ local'.userRegistrations = local.userRegistrations
          /\ local'.transactions = local.transactions
          /\ local'.withdrawalRequests = local.withdrawalRequests
          /\ local'.storage = local.storage]_vars

\* C15: an initiateRazorpayPayment called while the checkout script is not
\* loaded, or with an amount <= 0, calls onFailure once, opens no checkout and
\* calls no onSuccess; a checkout is opened only by a call that passed both
\* guards, and onSuccess is called only from an open checkout.
C15_GuardsBlockCheckout ==
    [][/\ \A amount \in PaymentAmounts, opens \in BOOLEAN :
            (/\ InitiateRazorpayPayment(amount, opens)
             /\ (~dialog.scriptLoaded \/ amount <= 0)) =>
                /\ dialog'.checkout = "closed"
                /\ dialog'.onSuccess = dialog.onSuccess
                /\ dialog'.onPaymentSuccess = dialog.onPaymentSuccess
                /\ dialog'.timers = dialog.timers
                /\ dialog'.onFailure \in
                       {Append(dialog.onFailure, "Payment gateway not loaded"),
                        Append(dialog.onFailure, "Invalid payment amount")}
       /\ (dialog'.checkout = "initiate" /\ dialog.checkout # "initiate") =>
             /\ dialog.scriptLoaded
             /\ \E amount \in PaymentAmounts :
                   amount > 0 /\ InitiateRazorpayPayment(amount, TRUE)
       /\ dialog'.onSuccess # dialog.onSuccess => dialog.checkout = "initiate"
      ]_vars

\* Both guards have refused a call: one before the script had loaded, one
\* with a non-positive amount after it had; nothing was opened or paid.
C15_BothGuardsRefused ==
    /\ settled.op = "initiateRazorpayPayment"
    /\ dialog.scriptLoaded
    /\ dialog.onFailure = << "Payment gateway not loaded",
                             "Invalid payment amount" >>
    /\ dialog.checkout = "closed"
    /\ dialog.onSuccess = << >>

(* ------------------ the withdrawals page, two admins ------------------- *)

\* The Approve button, rendered when request.status === 'PENDING' in the
\* browser's list: handleApprove(request).
HandleApprove(c, requestId) ==
    /\ requestId \in DOMAIN withdrawalRequests[c]
    /\ withdrawalRequests[c][requestId].status = "PENDING"
    /\ ProcessWithdrawal(c, requestId, TRUE, Null)

\* The Reject button of a PENDING request and the dialog's confirmation:
\* handleReject with a non-empty rejection reason.
HandleReject(c, requestId, rejectionReason) ==
    /\ requestId \in DOMAIN withdrawalRequests[c]
    /\ withdrawalRequests[c][requestId].status = "PENDING"
    /\ rejectionReason # ""
    /\ ProcessWithdrawal(c, requestId, FALSE, rejectionReason)

NextWithdrawals ==
    \E c \in Clients :
        \/ TournamentsSnapshot(c)
        \/ WithdrawalsSnapshot(c)
        \/ /\ opsStarted < MaxWithdrawalOps
           /\ \E rs \in RaceResults : DistributePrizes(c, "t1", rs)
        \/ DpAddMatchResult(c)
        \/ DpAddTransaction(c)
        \/ DpGetUser(c)
        \/ DpUpdateUser(c)
        \/ DpUpdateStatus(c)
        \/ DpFetchAllUsers(c)
        \/ /\ opsStarted < MaxWithdrawalOps
           /\ \E upi \in UpiIds : RequestWithdrawal(c, "u1", SeedPrize, upi)
        \/ RwGetUser(c)
        \/ RwAddDoc(c)
        \/ /\ opsStarted < MaxWithdrawalOps
           /\ \E r \in 1..Len(withdrawals) : HandleApprove(c, r)
        \/ /\ opsStarted < MaxWithdrawalOps
           /\ \E r \in 1..Len(withdrawals) :
                  HandleReject(c, r, "rejected by admin")
        \/ PwUpdateWithdrawal(c)
        \/ PwGetUser(c)
        \/ PwUpdateUser(c)
        \/ PwAddTransaction(c)

SpecWithdrawals == Init /\ [][NextWithdrawals]_vars

\* The WITHDRAWAL transactions written for request r.
WithdrawalTransactions(r) ==
    { t \in BagToSet(transactions) :
        t.type = "WITHDRAWAL" /\ t.referenceId = r }

\* C16: a withdrawal request is created PENDING with null processedAt,
\* processedBy and rejectionReason; its status changes only from PENDING, to
\* APPROVED or REJECTED, and never again; at most one WITHDRAWAL transaction
\* is written for it.
C16_ProcessedAtMostOnce ==
    /\ [](\A r \in 1..Len(withdrawals) :
            \A t \in WithdrawalTransactions(r) : CopiesIn(t, transactions) <= 1)
    /\ [][/\ Len(withdrawals') >= Len(withdrawals)
          /\ \A r \in 1..Len(withdrawals') :
                IF r > Len(withdrawals)
                THEN /\ withdrawals'[r].status = "PENDING"
                     /\ withdrawals'[r].processedAt = Null
                     /\ withdrawals'[r].processedBy = Null
                     /\ withdrawals'[r].rejectionReason = Null
                ELSE withdrawals'[r].status # withdrawals[r].status =>
                        /\ withdrawals[r].status = "PENDING"
                        /\ withdrawals'[r].status \in {"APPROVED", "REJECTED"}
         ]_vars

\* The PRIZE amounts of `user` in a bag of transactions, copies counted.
RECURSIVE PrizeSum(_, _)
PrizeSum(docs, user) ==
    IF docs = EmptyBag THEN 0
    ELSE LET d == CHOOSE x \in BagToSet(docs) : TRUE
         IN  (IF d.userId = user /\ d.type = "PRIZE" THEN d.amount ELSE 0)
             + PrizeSum(docs (-) SetToBag({d}), user)

\* The amounts of the APPROVED withdrawal requests of `user`.
ApprovedWithdrawals(user) ==
    SumSeq([r \in DOMAIN withdrawals |->
              IF withdrawals[r].oderId = user
                 /\ withdrawals[r].status = "APPROVED"
              THEN withdrawals[r].amount ELSE 0])

\* The prizes recorded for `user`: every credit to winningCredits follows the
\* PRIZE transaction of the same amount.
PrizesCredited(user) == PrizeSum(transactions, user)

\* C17: the amounts of a user's APPROVED withdrawal requests never add up to
\* more than the prizes credited to that user.
C17_ApprovedWithinPrizes ==
    \A u \in UserIds : ApprovedWithdrawals(u) <= PrizesCredited(u)

\* The PRIZE and WITHDRAWAL amounts of `user` in a bag of transactions.
RECURSIVE LedgerSum(_, _)
LedgerSum(docs, user) ==
    IF docs = EmptyBag THEN 0
    ELSE LET d == CHOOSE x \in BagToSet(docs) : TRUE
         IN  (IF d.userId = user /\ d.type \in {"PRIZE", "WITHDRAWAL"}
              THEN d.amount ELSE 0)
             + LedgerSum(docs (-) SetToBag({d}), user)

\* No call of the data layer is between two of its awaits.
Quiescent == \A c \in Clients : pc[c] \in {"idle", "roomDialog"}

\* C18: starting from zero credits and no transactions, whenever no operation
\* is in flight each user's winningCredits is the sum of that user's PRIZE
\* and WITHDRAWAL transaction amounts.
C18_LedgerConsistent ==
    Quiescent =>
        \A u \in UserIds :
            users[u].exists =>
                users[u].winningCredits = LedgerSum(transactions, u)

\* C19: no two registrations of the same tournament carry the same
\* slotNumber, however the joinTournament calls of the clients interleave.
C19_SlotNumbersUnique ==
    \A r1, r2 \in BagToSet(registrations) :
        /\ CopiesIn(r1, registrations) = 1
        /\ (r1 # r2 /\ r1.tournamentId = r2.tournamentId) =>
               r1.slotNumber # r2.slotNumber

\* The WITHDRAWAL transaction of the approval that call c is running.
WithdrawalTransaction(c) ==
    TransactionDoc(call[c].request.oderId, "WITHDRAWAL",
                   0 - call[c].request.amount, call[c].requestId)

\* C20: an approval has written status APPROVED before it reads or writes
\* the users document; when that read or update fails the call rejects, the
\* request stays APPROVED, winningCredits keeps the value it had and no
\* WITHDRAWAL transaction is written; the call resolves only by adding one
\* WITHDRAWAL transaction of -request.amount with referenceId = requestId,
\* and no other step of processWithdrawal adds a transaction.
C20_ApprovedBeforeDeduction ==
    [][\A c \in Clients :
         (c \in Actors /\ call[c].op = "processWithdrawal") =>
            /\ pc[c] \in {"pw_getUser", "pw_updateUser", "pw_addTransaction"} =>
                  /\ call[c].approved
                  /\ withdrawals[call[c].requestId].status = "APPROVED"
            /\ (pc[c] \in {"pw_getUser", "pw_updateUser"}
                /\ pc'[c] = "idle") =>
                  /\ settled' = [client |-> c, op |-> "processWithdrawal",
                                 result |-> "rejected"]
                  /\ backend' = backend
                  /\ withdrawals'[call[c].requestId].status = "APPROVED"
                  /\ pc[c] = "pw_updateUser" =>
                        users'[call[c].request.oderId].winningCredits =
                            call[c].currentCredits
            /\ (pc[c] = "pw_addTransaction" /\ settled'.result = "resolved") =>
                  /\ transactions' =
                         AddDoc(transactions, WithdrawalTransaction(c))
                  /\ BagCardinality(transactions') =
                         BagCardinality(transactions) + 1
            /\ pc[c] # "pw_addTransaction" => transactions' = transactions
      ]_vars

\* The approval of u1's request was rejected at the users document: the
\* request is APPROVED, the credits are all there, no WITHDRAWAL is recorded.
C20_ApprovedNotDeducted ==
    /\ settled = [client |-> Admin, op |-> "processWithdrawal",
                  result |-> "rejected"]
    /\ opsStarted = 1
    /\ withdrawals[1].status = "APPROVED"
    /\ users["u1"].winningCredits = SeedPrize
    /\ \A t \in BagToSet(transactions) : t.type # "WITHDRAWAL"

(* ---------------------- the three writes of a join --------------------- *)

\* The registration that call c of joinTournament writes.
CallRegistration(c) ==
    RegistrationDoc(call[c].tournamentId, call[c].oderId, call[c].paymentId,
                    call[c].slotNumber)

\* C21: joinTournament of a tournament that is not in the caller's snapshot
\* rejects before any write; otherwise it writes the registration, then the
\* ENTRY_FEE transaction of -entryFee for the tournament, then registeredCount
\* := slotNumber, one write per step; when the second or third write fails
\* the call rejects, its registration stays and the tournament document is
\* left as it was.
C21_JoinWritesInOrder ==
    [][\A c \in Clients :
         /\ (Idle(c) /\ opsStarted' # opsStarted /\ settled'.client = c
             /\ settled'.op = "joinTournament") =>
               /\ settled'.result = "rejected"
               /\ backend' = backend
               /\ \E t \in TournamentIds : ~tournaments[c][t].exists
         /\ (Idle(c) /\ pc'[c] = "jt_addRegistration") =>
               /\ backend' = backend
               /\ tournaments[c][call'[c].tournamentId].exists
               /\ call'[c].slotNumber =
                      tournaments[c][call'[c].tournamentId].registeredCount + 1
         /\ (pc[c] = "jt_addRegistration" /\ pc'[c] = "jt_addTransaction") =>
               /\ registrations' = AddDoc(registrations, CallRegistration(c))
               /\ transactions' = transactions
               /\ tournamentDocs' = tournamentDocs
         /\ (pc[c] = "jt_addTransaction" /\ pc'[c] = "jt_updateCount") =>
               /\ transactions' = AddDoc(transactions,
                      TransactionDoc(call[c].oderId, "ENTRY_FEE",
                          0 - tournaments[c][call[c].tournamentId].entryFee,
                          call[c].tournamentId))
               /\ registrations' = registrations
               /\ tournamentDocs' = tournamentDocs
         /\ (pc[c] = "jt_updateCount" /\ pc'[c] = "idle"
             /\ settled'.result = "resolved") =>
               /\ tournamentDocs' =
                      [tournamentDocs EXCEPT
                         ![call[c].tournamentId].registeredCount =
                             call[c].slotNumber]
               /\ registrations' = registrations
               /\ transactions' = transactions
         /\ (pc[c] \in {"jt_addRegistration", "jt_addTransaction",
                        "jt_updateCount"}
             /\ pc'[c] = "idle" /\ settled'.result # "resolved") =>
               /\ settled' = [client |-> c, op |-> "joinTournament",
                              result |-> "rejected"]
               /\ backend' = backend
               /\ pc[c] # "jt_addRegistration" =>
                     CopiesIn(CallRegistration(c), registrations') >= 1
      ]_vars

\* The third write of the first join failed: the call rejected, its
\* registration and entry-fee transaction are stored, the count is still 0.
C21_RejectedAtCount ==
    /\ settled.op = "joinTournament" /\ settled.result = "rejected"
    /\ opsStarted = 1
    /\ BagCardinality(registrations) = 1
    /\ BagCardinality(transactions) = 1
    /\ tournamentDocs["t1"].registeredCount = 0

(* ----------------- amounts of any sign, one admin browser -------------- *)

\* The amount argument of requestWithdrawal: a number, nothing narrows it.
RequestAmounts == {0 - SeedPrize, 0, SeedPrize}

\* The prizeAmount argument of addTournamentResult: a number as well.
ResultPrizes == {0 - SeedPrize, SeedPrize}

NextCredits ==
    \/ TournamentsSnapshot(Admin)
    \/ WithdrawalsSnapshot(Admin)
    \/ /\ opsStarted < MaxCreditOps
       /\ \E rs \in RaceResults : DistributePrizes(Admin, "t1", rs)
    \/ DpAddMatchResult(Admin)
    \/ DpAddTransaction(Admin)
    \/ DpGetUser(Admin)
    \/ DpUpdateUser(Admin)
    \/ DpUpdateStatus(Admin)
    \/ DpFetchAllUsers(Admin)
    \/ /\ opsStarted < MaxCreditOps
       /\ \E p \in ResultPrizes :
              AddTournamentResult(Admin, "t1", "u1", 1, p, 0)
    \/ AtrAddTransaction(Admin)
    \/ AtrGetUser(Admin)
    \/ AtrUpdateUser(Admin)
    \/ /\ opsStarted < MaxCreditOps
       /\ \E amount \in RequestAmounts, upi \in UpiIds :
              RequestWithdrawal(Admin, "u1", amount, upi)
    \/ RwGetUser(Admin)
    \/ RwAddDoc(Admin)
    \/ /\ opsStarted < MaxCreditOps
       /\ \E r \in 1..Len(withdrawals) : HandleApprove(Admin, r)
    \/ PwUpdateWithdrawal(Admin)
    \/ PwGetUser(Admin)
    \/ PwUpdateUser(Admin)
    \/ PwAddTransaction(Admin)

SpecCredits == Init /\ [][NextCredits]_vars

\* C22: every stored withdrawal request has amount > 0, and the step of an
\* approval that writes winningCredits never raises any user's balance.
C22_ApprovalNeverCredits ==
    /\ [](\A r \in 1..Len(withdrawals) : withdrawals[r].amount > 0)
    /\ [][\A c \in Clients :
            pc[c] = "pw_updateUser" =>
                \A u \in UserIds :
                    users'[u].winningCredits <= users[u].winningCredits]_vars

C24_RejectionOnlyMarks ==
    [][\A c \in Clients :
         /\ (Idle(c) /\ opsStarted' # opsStarted
             /\ settled' = [client |-> c, op |-> "processWithdrawal",
                            result |-> "resolved"]) =>
               backend' = backend
         /\ (Idle(c) /\ pc'[c] = "pw_updateWithdrawal") =>
               /\ backend' = backend
               /\ call'[c].requestId \in DOMAIN withdrawalRequests[c]
         /\ (c \in Actors /\ call[c].op = "processWithdrawal") =>
               /\ ~call[c].approved =>
                     /\ pc[c] = "pw_updateWithdrawal"
                     /\ pc'[c] = "idle"
                     /\ users' = users
                     /\ transactions' = transactions
                     /\ << tournamentDocs, registrations, matchResults >>' =
                            << tournamentDocs, registrations, matchResults >>
                     /\ \/ /\ settled'.result = "rejected"
                           /\ withdrawals' = withdrawals
                        \/ /\ settled'.result = "resolved"
                           /\ withdrawals' =
                                [withdrawals EXCEPT ![call[c].requestId] =
                                   [@ EXCEPT !.status = "REJECTED",
                                             !.processedAt = "now",
                                             !.processedBy = Uid(c),
                                             !.rejectionReason = call[c].reason]]
               /\ (users' # users \/ transactions' # transactions) =>
                     /\ call[c].approved
                     /\ call[c].requestId \in DOMAIN withdrawals
      ]_vars

\* The admin has rejected the request of u1: it is REJECTED with the reason,
\* the balance and the transactions are those of the start.
C24_RejectedUntouched ==
    /\ settled = [client |-> Admin, op |-> "processWithdrawal",
                  result |-> "resolved"]
    /\ opsStarted = 1
    /\ withdrawals[1].status = "REJECTED"
    /\ withdrawals[1].rejectionReason = "rejected by admin"
    /\ withdrawals[1].processedBy = Uid(Admin)
    /\ users["u1"].winningCredits = SeedPrize
    /\ BagCardinality(transactions) = 1


(* ------------------------ a join paid from the wallet ------------------ *)

\* The page that renders the dialog: its onPaymentSuccess callback registers
\* the dialog's user in the dialog's tournament under the payment id it was
\* handed, await joinTournament(tournament.id, user.id, paymentId).  The
\* callbacks are served in the order the dialog made them.
OnPaymentSuccess(c) ==
    /\ dialog.user # Null
    /\ opsStarted < Len(dialog.onPaymentSuccess)
    /\ JoinTournament(c, "t1", dialog.user,
                      dialog.onPaymentSuccess[opsStarted + 1].paymentId)

NextWalletJoin ==
    \/ HandleClose
    \/ OpenDialog
    \/ \E m \in PaymentMethods : SetPaymentMethod(m)
    \/ /\ dialog.started < MaxPayments
       /\ HandleWalletPayment
    \/ WalletStepDone
    \/ \E timer \in BagToSet(dialog.timers),
          now \in ClockReadings(dialog.now) : PaymentSuccessTimer(timer, now)
    \/ \E c \in Clients :
          \/ TournamentsSnapshot(c)
          \/ OnPaymentSuccess(c)
          \/ JtAddRegistration(c)
          \/ JtAddTransaction(c)
          \/ JtUpdateCount(c)

SpecWalletJoin == InitPay /\ [][NextWalletJoin]_vars

\* The payment id was handed to onPaymentSuccess by a wallet payment.
PaidFromWallet(paymentId) ==
    \E i \in 1..Len(dialog.onPaymentSuccess) :
        /\ dialog.onPaymentSuccess[i].method = "wallet"
        /\ dialog.onPaymentSuccess[i].paymentId = paymentId

\* C25: a join paid from the wallet charges the user: when the joinTournament
\* call started by onPaymentSuccess for a wallet payment resolves, the user's
\* walletBalance is lower than it was by at least the tournament's entry fee.
C25_WalletJoinCharges ==
    [][\A c \in Clients :
          ( /\ pc[c] = "jt_updateCount"
            /\ pc'[c] = "idle"
            /\ settled'.result = "resolved"
            /\ PaidFromWallet(call[c].paymentId) )
          => users'[call[c].oderId].walletBalance
                 <= InitWallet - call[c].entryFee]_vars


(* -------------------- status changes of the admin page ----------------- *)

MaxStatusOps == 3

\* The Enter Results & Distribute Prizes button, shown when the listed
\* tournament is COMPLETED or LIVE, followed by the Distribute button of the
\* results dialog it opens: handleDistributePrizes calls
\* distributePrizes(selectedTournament.id, playerResults).
HandleDistributePrizes(c, tournamentId, playerResults) ==
    /\ tournaments[c][tournamentId].exists
    /\ tournaments[c][tournamentId].status \in {"COMPLETED", "LIVE"}
    /\ DistributePrizes(c, tournamentId, playerResults)

NextStatus ==
    \E c \in Clients :
        \/ TournamentsSnapshot(c)
        \/ /\ opsStarted < MaxStatusOps
           /\ \E status \in {"LIVE", "COMPLETED", "CANCELLED"} :
                  HandleStatusChange(c, "t1", status)
        \/ /\ opsStarted < MaxStatusOps
           /\ \E rs \in RaceResults : HandleDistributePrizes(c, "t1", rs)
        \/ DpAddMatchResult(c)
        \/ DpAddTransaction(c)
        \/ DpGetUser(c)
        \/ DpUpdateUser(c)
        \/ DpUpdateStatus(c)
        \/ DpFetchAllUsers(c)

SpecStatus == InitFresh /\ [][NextStatus]_vars

\* The status changes the buttons of the page stand for.
StatusTransitions ==
    { << "UPCOMING", "LIVE" >>, << "UPCOMING", "CANCELLED" >>,
      << "LIVE", "COMPLETED" >>, << "COMPLETED", "COMPLETED" >> }

\* C26: through the admin tournaments page the stored status of a tournament
\* only goes UPCOMING -> LIVE, UPCOMING -> CANCELLED, LIVE -> COMPLETED or
\* COMPLETED -> COMPLETED; CANCELLED and COMPLETED are never left, also when
\* several admin browsers act on out-of-date lists.
C26_StatusTransitions ==
    [][\A t \in TournamentIds :
          ( /\ tournamentDocs[t].exists
            /\ tournamentDocs'[t].exists
            /\ tournamentDocs'[t].status # tournamentDocs[t].status )
          => << tournamentDocs[t].status, tournamentDocs'[t].status >>
                 \in StatusTransitions]_vars


(* --------------------- signing in, out and up -------------------------- *)

MaxAuthOps == 3

\* u1 was made an admin by hand in the console; NoProfile has an account and
\* no users document; u2 has no account yet.
InitAuth ==
    /\ users = [u \in UserIds \cup {NoProfile} |->
                  IF u = "u1"
                  THEN [UserDoc(InitWallet, SeedPrize) EXCEPT !.isAdmin = TRUE]
                  ELSE NoDoc]
    /\ tournamentDocs =
         [t \in TournamentIds |->
            IF t = "t1" THEN TournamentDoc("UPCOMING", 2, 5, OverlapTiers)
            ELSE NoDoc]
    /\ registrations = EmptyBag
    /\ transactions = EmptyBag
    /\ withdrawals = << >>
    /\ matchResults = EmptyBag
    /\ tournaments = [c \in Clients |-> [t \in TournamentIds |-> NoDoc]]
    /\ withdrawalRequests = [c \in Clients |-> << >>]
    /\ pc = [c \in Clients |-> "idle"]
    /\ call = [c \in Clients |-> IdleCall]
    /\ settled = NoEvent
    /\ distributed = EmptyBag
    /\ opsStarted = 0
    /\ dialog = NoDialog
    /\ local = LocalMount(EmptyStorage)
    /\ auth = [NoAuth EXCEPT !.accounts = {"u1", NoProfile}]
    /\ handlers = [c \in Clients |-> NoHandlers]

NextAuth ==
    \/ /\ auth.started < MaxAuthOps
       /\ \E uid \in UserIds \cup {NoProfile}, ok \in BOOLEAN : Login(uid, ok)
    \/ /\ auth.started < MaxAuthOps
       /\ \E ok \in BOOLEAN : Logout(ok)
    \/ /\ auth.started < MaxAuthOps
       /\ \E uid \in UserIds, ok \in BOOLEAN : Signup(uid, ok)
    \/ \E ok \in BOOLEAN : SignupSetDoc(ok)
    \/ \E uid \in UserIds \cup {NoProfile}, ok \in BOOLEAN :
          FetchUserProfile(uid, ok)

SpecAuth == InitAuth /\ [][NextAuth]_vars

\* C27: isAdmin is true only when the users document of the signed-in uid
\* was read and has isAdmin = true; the profile set when the document is
\* missing or unreadable, and the profile set by signup, have isAdmin and
\* isBanned false and both balances zero.
C27_AdminOnlyFromOwnDocument ==
    /\ [](IsAdmin =>
            /\ auth.firebaseUser # Null
            /\ auth.user.id = auth.firebaseUser
            /\ users[auth.firebaseUser].exists
            /\ users[auth.firebaseUser].isAdmin)
    /\ [][( /\ settled'.client = "auth"
            /\ settled'.result \in {"fallback", "resolved"}
            /\ settled'.op \in {"fetchUserProfile", "signup"} )
          => /\ ~auth'.user.isAdmin
             /\ ~auth'.user.isBanned
             /\ auth'.user.walletBalance = 0
             /\ auth'.user.winningCredits = 0]_vars


(* ------------------ the withdrawals listener of an admin --------------- *)

MaxListenerOps == 2

\* setWithdrawalRequests(withdrawals) at the end of a handler; the rows keep
\* the fields of their documents.
SetWithdrawalRequests(c, snapshot) ==
    withdrawalRequests' = [withdrawalRequests EXCEPT ![c] = snapshot]

\* onSnapshot(withdrawalsQuery, async (snapshot) => {...}) of an admin: a
\* snapshot is delivered and its handler runs up to its first
\* await getDoc(doc(db, 'users', data.oderId)); a snapshot without documents
\* has no await and sets the state at once.
WithdrawalsDelivered(c) ==
    /\ withdrawals # handlers[c].delivered
    /\ settled' = NoEvent
    /\ IF Len(withdrawals) = 0
       THEN /\ SetWithdrawalRequests(c, withdrawals)
            /\ handlers' = [handlers EXCEPT ![c].delivered = withdrawals]
       ELSE /\ UNCHANGED withdrawalRequests
            /\ handlers' = [handlers EXCEPT
                   ![c].delivered = withdrawals,
                   ![c].running = AddDoc(@, [snapshot |-> withdrawals,
                                             idx |-> 1])]
    /\ UNCHANGED << backend, tournaments, pc, call, distributed, opsStarted,
                    dialog, local, auth >>

\* The getDoc a running handler awaits returns, with the document or with an
\* error that is logged: the loop goes on to the next document, and after
\* the last one the handler sets the state from its own snapshot.
WithdrawalUserRead(c, h) ==
    /\ CopiesIn(h, handlers[c].running) > 0
    /\ settled' = NoEvent
    /\ IF h.idx < Len(h.snapshot)
       THEN /\ UNCHANGED withdrawalRequests
            /\ handlers' = [handlers EXCEPT
                   ![c].running = AddDoc(@ (-) SetToBag({h}),
                                         [h EXCEPT !.idx = @ + 1])]
       ELSE /\ SetWithdrawalRequests(c, h.snapshot)
            /\ handlers' = [handlers EXCEPT
                   ![c].running = @ (-) SetToBag({h})]
    /\ UNCHANGED << backend, tournaments, pc, call, distributed, opsStarted,
                    dialog, local, auth >>

NextListener ==
    \/ WithdrawalsDelivered(Admin)
    \/ \E h \in BagToSet(handlers[Admin].running) :
          WithdrawalUserRead(Admin, h)
    \/ /\ opsStarted < MaxListenerOps
       /\ \E upi \in UpiIds : RequestWithdrawal(Admin, "u1", SeedPrize, upi)
    \/ RwGetUser(Admin)
    \/ RwAddDoc(Admin)
    \/ /\ opsStarted < MaxListenerOps
       /\ \E r \in 1..Len(withdrawals) : HandleApprove(Admin, r)
    \/ /\ opsStarted < MaxListenerOps
       /\ \E r \in 1..Len(withdrawals) :
              HandleReject(Admin, r, "rejected by admin")
    \/ PwUpdateWithdrawal(Admin)
    \/ PwGetUser(Admin)
    \/ PwUpdateUser(Admin)
    \/ PwAddTransaction(Admin)

SpecListener == Init /\ [][NextListener]_vars

\* C28: the withdrawalRequests state of an admin ends up reflecting the most
\* recent snapshot the withdrawals listener delivered: once no handler is
\* running the list is the last snapshot delivered, so the result computed
\* from an older snapshot never replaces that of a newer one.
C28_ListReflectsLatest ==
    \A c \in Clients :
        handlers[c].running = EmptyBag
            => withdrawalRequests[c] = handlers[c].delivered

====
